---- MODULE Spec2Model ----
(***************************************************************************)
(* Model of the vscode-vlang extension: acquisition of the V compiler      *)
(* (vUtils), version canonicalisation, and the language-client lifecycle   *)
(* (extension.ts).  Strings whose characters matter are sequences of       *)
(* one-character strings.                                                  *)
(***************************************************************************)
EXTENDS Integers, Sequences, FiniteSets, TLC

VARIABLES
    \* ---- version canonicalisation (pure functions) ----
    in1, in2,           \* the two arguments handed to isUpToDate
    tok1, tok2,         \* extractVersionIdentifier of each argument
    upToDate,           \* result of isUpToDate
    vpc,                \* "input" -> "canon" -> "compared"
    \* ---- release resolution (pure functions of the server's response) ----
    host,               \* process.platform and process.arch
    relMode,            \* which routine is exercised: "stable", "latest", "select"
    body,               \* res.ok and the parsed JSON body of the response
    assetsIn,           \* the assets handed to selectAssetForPlatform
    result,             \* what the routine returned or threw
    rpc,                \* "request" -> "done"
    \* ---- compiler acquisition: configuration and host ----
    platform,           \* process.platform: "posix" or "win32"
    releaseChannel,     \* config v.releaseChannel
    forceCleanInstall,  \* config v.forceCleanInstall
    executablePath,     \* config v.executablePath: "v" (PATH lookup) or "custom"
    \* ---- compiler acquisition: file system and PATH ----
    fs,                 \* content of the paths under USER_BIN_PATH
    bins,               \* other places that hold a V binary: "sys", "custom"
    linkTarget,         \* what the `v symlink` link on PATH points to
    storeVer,           \* `--version` output of the binary under USER_BIN_PATH
    otherVer,           \* `--version` output of every other V binary
    xbit,               \* paths that chmodSync has made executable
    env0,               \* the file system and PATH when the pass began
    \* ---- compiler acquisition: one pass of activate ----
    pc,                 \* position of the pass
    ctx,                \* which routine called the resolver / installer
    selection,          \* answer to the consent prompt
    asset,              \* ReleaseAssetInfo returned by the resolver
    isUpdate,           \* isUpdate argument of installVFromAsset
    installedVersion,   \* installedVersion local of checkUpdates
    \* ---- compiler acquisition: observations ----
    calls,              \* routines entered, in order
    hvProbe,            \* result of the probe of handleVinstallation
    presentAtStart,     \* a probe at the start of the pass would say installed
    prior,              \* install state when installVFromAsset was entered
    failedAt,           \* step that threw
    shown,              \* kinds of notification shown to the user
    logged,             \* an error was written with log()
    registered,         \* registerCommands has run
    \* ---- language-client lifecycle (extension.ts) ----
    enable,             \* config v.vls.enable
    client,             \* the module-level `client`: 0 is undefined
    cstate,             \* state of every LanguageClient object created
    hpc,                \* position of activate (0) and of each event handler
    hcl,                \* the client object a handler is awaiting
    nEvents,            \* configuration-change events delivered so far
    listening,          \* the onDidChangeConfiguration listener is registered
    stopCalls,          \* stop requests: client.stop() calls of the disable
                        \* handler and of deactivate, per client
    revision,           \* which revision of extension.ts runs
    captured,           \* the argument registerVlsCommands was called with
    cmd,                \* the last v.vls.restart / v.vls.update command
    nCmds,              \* commands invoked so far
    hobs,               \* what each handler saw and did
    \* the launcher's standard output
    lnLines,            \* the lines the launcher writes
    lnRest,             \* the text not yet handed over in a "data" event
    lnDelivered,        \* the payloads the consumer callback was called with
    lnInvalid,          \* how many chunks were logged as invalid payloads
    \* setting up the language server and the compiler
    sRoutine,           \* the routine called: getVls or installV (utils.ts)
    spc,                \* its position; "resolved" / "rejected" when settled
    sForce,             \* v.vls.forceCleanInstall
    sBuild,             \* v.vls.build
    sBuildPath,         \* v.vls.buildPath
    vlsFile,            \* what VLS_PATH holds
    vlsAtStart,         \* what VLS_PATH held when the routine was called
    buildBin,           \* the binary in the build path
    vOk,                \* isVInstalled()
    sSelected,          \* the answer to the install prompt
    sCalls,             \* the routines entered, in order
    sFailed,            \* the step that failed
    sShown              \* the message shown last

versionVars == <<in1, in2, tok1, tok2, upToDate, vpc>>
relVars == <<host, relMode, body, assetsIn, result, rpc>>
cfgVars == <<platform, releaseChannel, forceCleanInstall, executablePath, otherVer, env0,
             presentAtStart>>
envVars == <<fs, bins, linkTarget, storeVer, xbit>>
passVars == <<pc, ctx, selection, asset, isUpdate, installedVersion>>
obsVars == <<calls, hvProbe, prior, failedAt, shown, logged, registered>>
acqVars == <<cfgVars, envVars, passVars, obsVars>>
clientVars == <<enable, client, cstate, hpc, hcl, nEvents, listening, stopCalls,
               revision, captured, cmd, nCmds, hobs>>
lnVars == <<lnLines, lnRest, lnDelivered, lnInvalid>>
setupVars == <<sRoutine, vlsAtStart, spc, sForce, sBuild, sBuildPath, vlsFile, buildBin, vOk,
              sSelected, sCalls, sFailed, sShown>>
vars == <<versionVars, relVars, acqVars, clientVars, lnVars, setupVars>>

(***************************************************************************)
(* JavaScript string helpers                                               *)
(***************************************************************************)
\* string | undefined
Undefined == [def |-> FALSE, val |-> <<>>]
Str(s) == [def |-> TRUE, val |-> s]

SetMin(S) == CHOOSE x \in S : \A y \in S : x <= y
SetMax(S) == CHOOSE x \in S : \A y \in S : x >= y

IsDigit(c) == c \in {"0", "1", "2", "3", "4", "5", "6", "7", "8", "9"}
IsSpace(c) == c \in {" ", "\t", "\n", "\r"}

UpperChars == <<"A","B","C","D","E","F","G","H","I","J","K","L","M",
                "N","O","P","Q","R","S","T","U","V","W","X","Y","Z">>
LowerChars == <<"a","b","c","d","e","f","g","h","i","j","k","l","m",
                "n","o","p","q","r","s","t","u","v","w","x","y","z">>

toLowerChar(c) ==
    IF \E i \in DOMAIN UpperChars : UpperChars[i] = c
    THEN LowerChars[CHOOSE i \in DOMAIN UpperChars : UpperChars[i] = c]
    ELSE c

\* String.prototype.toLowerCase
toLowerCase(s) == [i \in 1..Len(s) |-> toLowerChar(s[i])]

\* String.prototype.trim
trim(s) ==
    LET keep == {i \in 1..Len(s) : ~IsSpace(s[i])}
    IN  IF keep = {} THEN <<>> ELSE SubSeq(s, SetMin(keep), SetMax(keep))

\* last index of the maximal run of digits that starts at i (greedy \d+)
RunEnd(s, i) ==
    CHOOSE j \in i..Len(s) :
        /\ \A k \in i..j : IsDigit(s[k])
        /\ (j = Len(s) \/ ~IsDigit(s[j + 1]))

WeeklyPrefix == <<"w", "e", "e", "k", "l", "y", ".">>

\* /weekly\.\d{4}\.\d+/ matches at position i
WeeklyAt(s, i) ==
    LET y == i + Len(WeeklyPrefix)      \* first digit of the year
    IN  /\ y + 5 <= Len(s)
        /\ SubSeq(s, i, y - 1) = WeeklyPrefix
        /\ \A k \in y..(y + 3) : IsDigit(s[k])
        /\ s[y + 4] = "."
        /\ IsDigit(s[y + 5])

\* variant in which the weekly pattern never matches
WeeklyMatch_never(s) == Undefined

WeeklyMatch(s) ==
    LET at == {i \in 1..Len(s) : WeeklyAt(s, i)}
    IN  IF at = {} THEN Undefined
        ELSE LET i == SetMin(at)
             IN  Str(SubSeq(s, i, RunEnd(s, i + Len(WeeklyPrefix) + 5)))

\* /(\d+\.\d+\.\d+)/ matches at position i; SemverEnd is the end of that match
SemverAt(s, i) ==
    /\ i <= Len(s) /\ IsDigit(s[i])
    /\ LET j == RunEnd(s, i)
       IN  /\ j + 2 <= Len(s) /\ s[j + 1] = "." /\ IsDigit(s[j + 2])
           /\ LET k == RunEnd(s, j + 2)
              IN  k + 2 <= Len(s) /\ s[k + 1] = "." /\ IsDigit(s[k + 2])

SemverEnd(s, i) == RunEnd(s, RunEnd(s, RunEnd(s, i) + 2) + 2)

SemverMatch(s) ==
    LET at == {i \in 1..Len(s) : SemverAt(s, i)}
    IN  IF at = {} THEN Undefined
        ELSE LET i == SetMin(at) IN Str(SubSeq(s, i, SemverEnd(s, i)))

\* normalized.replace(/^v[\s-]?/, "")
StripVPrefix(s) ==
    IF Len(s) >= 1 /\ s[1] = "v"
    THEN IF Len(s) >= 2 /\ (IsSpace(s[2]) \/ s[2] = "-")
         THEN SubSeq(s, 3, Len(s))
         ELSE SubSeq(s, 2, Len(s))
    ELSE s

\* variant that tries the numeric triple before the weekly tag
extractVersionIdentifier_semverFirst(value) ==
    IF ~value.def \/ value.val = <<>> THEN Undefined
    ELSE LET normalized == toLowerCase(trim(value.val))
         IN  IF normalized = <<>> THEN Undefined
             ELSE IF SemverMatch(normalized).def THEN SemverMatch(normalized)
             ELSE IF WeeklyMatch(normalized).def THEN WeeklyMatch(normalized)
             ELSE Str(StripVPrefix(normalized))

extractVersionIdentifier(value) ==
    IF ~value.def \/ value.val = <<>> THEN Undefined
    ELSE LET normalized == toLowerCase(trim(value.val))
         IN  IF normalized = <<>> THEN Undefined
             ELSE IF WeeklyMatch(normalized).def THEN WeeklyMatch(normalized)
             ELSE IF SemverMatch(normalized).def THEN SemverMatch(normalized)
             ELSE Str(StripVPrefix(normalized))

\* JavaScript truthiness of a string | undefined
Truthy(x) == x.def /\ x.val # <<>>

\* variant that compares the raw strings instead of their identifiers
isUpToDate_rawCompare(currentVersion, targetVersion) ==
    currentVersion.def /\ targetVersion.def /\ currentVersion = targetVersion

isUpToDate(currentVersion, targetVersion) ==
    LET current == extractVersionIdentifier(currentVersion)
        target == extractVersionIdentifier(targetVersion)
    IN  IF ~Truthy(target) THEN FALSE
        ELSE IF ~Truthy(current) THEN FALSE
        ELSE current = target

(***************************************************************************)
(* Version inputs: a raw version string is assembled from a prefix, a core *)
(* and a suffix, so that what it contains is known by construction.        *)
(***************************************************************************)
Triple123 == <<"1", ".", "2", ".", "3">>
Triple0410 == <<"0", ".", "4", ".", "1", "0">>
Triple999 == <<"9", ".", "9", ".", "9">>
Weekly202415 == <<"w", "e", "e", "k", "l", "y", ".", "2", "0", "2", "4", ".", "1", "5">>
OpaqueDev == <<"d", "e", "v">>

Triples == {Triple123, Triple0410}
Prefixes == {<<>>, <<"v">>, <<"V", " ">>, <<"v", "-">>, <<" ">>}
Cores == Triples \cup {Weekly202415, OpaqueDev, <<>>}
Suffixes == {<<>>, <<" ">>, <<" ">> \o Triple999}

VersionInputs ==
    {[undef |-> TRUE, pre |-> <<>>, core |-> <<>>, suf |-> <<>>]}
    \cup [undef : {FALSE}, pre : Prefixes, core : Cores, suf : Suffixes]

\* the string | undefined an input stands for
Raw(in) == IF in.undef THEN Undefined ELSE Str(in.pre \o in.core \o in.suf)

VersionInit ==
    /\ in1 \in VersionInputs
    /\ in2 \in VersionInputs
    /\ tok1 = Undefined
    /\ tok2 = Undefined
    /\ upToDate = FALSE
    /\ vpc = "input"

\* the two extractVersionIdentifier calls of isUpToDate
Canonicalize ==
    /\ vpc = "input"
    /\ tok1' = extractVersionIdentifier(Raw(in1))
    /\ tok2' = extractVersionIdentifier(Raw(in2))
    /\ vpc' = "canon"
    /\ UNCHANGED <<in1, in2, upToDate>>
    /\ UNCHANGED <<relVars, lnVars, setupVars, acqVars, clientVars>>

Compare ==
    /\ vpc = "canon"
    /\ upToDate' = isUpToDate(Raw(in1), Raw(in2))
    /\ vpc' = "compared"
    /\ UNCHANGED <<in1, in2, tok1, tok2>>
    /\ UNCHANGED <<relVars, lnVars, setupVars, acqVars, clientVars>>

\* the version variables when no comparison is being modelled
VersionIdle ==
    /\ in1 = [undef |-> TRUE, pre |-> <<>>, core |-> <<>>, suf |-> <<>>]
    /\ in2 = in1
    /\ tok1 = Undefined
    /\ tok2 = Undefined
    /\ upToDate = FALSE
    /\ vpc = "input"

(***************************************************************************)
(* Compiler acquisition (vUtils): host, file system, PATH                  *)
(***************************************************************************)
Channels == {"stable", "nightly", "custom", "beta", "undefined"}
Contents == {"absent", "old", "partial", "new"}

\* paths under storageDir = USER_BIN_PATH
StorePaths == {"v", "v.exe", "archive"}
vDir == "v"
vExecPath == IF platform = "win32" THEN "v.exe" ELSE "v"
tmpFile == "archive"

existsSync(p) == fs[p] # "absent"

\* the binary under USER_BIN_PATH can be run
StoreRunnable == fs[vDir] \in {"old", "new"}

\* `which v` / `where v`: first V binary on PATH, or "none"
findVBinary ==
    IF linkTarget = "repo" \/ (linkTarget = "store" /\ StoreRunnable) THEN "link"
    ELSE IF "sys" \in bins THEN "sys"
    ELSE "none"

\* the binary that `${vexec} --version` runs, or "none"
VExecTarget == IF executablePath = "custom"
               THEN (IF "custom" \in bins THEN "custom" ELSE "none")
               ELSE findVBinary

VersionStdout ==
    IF VExecTarget = "link" /\ linkTarget = "store" THEN storeVer ELSE otherVer

isVInstalled ==
    IF VExecTarget # "none"
    THEN [installed |-> TRUE,
          version |-> IF trim(VersionStdout) = <<>> THEN Undefined
                      ELSE Str(trim(VersionStdout))]
    ELSE [installed |-> FALSE, version |-> Undefined]

StableTags == {Triple123, Triple0410}
LatestTags == StableTags \cup {Weekly202415}
Extensions == {"zip", "tar.gz", "other"}
\* what the archive holds at its top level under the name `v`
Layouts == {"directory", "file"}
NoAsset == [def |-> FALSE, version |-> <<>>, ext |-> "other", top |-> "directory"]

\* `--version` output of a binary installed from the release tagged `tag`
VersionOutputOf(tag) == <<"V", " ">> \o tag
InstalledOutputs == {VersionOutputOf(Triple123), VersionOutputOf(Triple0410), <<>>}

AcqInit ==
    /\ platform \in {"posix", "win32"}
    /\ releaseChannel \in Channels
    /\ forceCleanInstall \in BOOLEAN
    /\ executablePath \in {"v", "custom"}
    /\ bins \in SUBSET {"sys", "custom"}
    /\ ("custom" \in bins) => executablePath = "custom"
    /\ fs \in [StorePaths -> {"absent", "old"}]
    /\ fs[tmpFile] = "absent"
    /\ (platform = "posix") => fs["v.exe"] = "absent"
    /\ linkTarget \in {"none", "store", "repo"}
    /\ storeVer = IF fs[vDir] = "old" THEN VersionOutputOf(Triple123) ELSE <<>>
    /\ otherVer \in InstalledOutputs
    /\ xbit = {}
    /\ env0 = <<fs, bins, linkTarget, storeVer, xbit>>
    /\ pc = "activate"
    /\ ctx = "none"
    /\ selection = "none"
    /\ asset = NoAsset
    /\ isUpdate = FALSE
    /\ installedVersion = Undefined
    /\ calls = <<>>
    /\ hvProbe = "none"
    /\ presentAtStart = isVInstalled.installed
    /\ prior = [dir |-> "absent", exec |-> "absent"]
    /\ failedAt = "none"
    /\ shown = {}
    /\ logged = FALSE
    /\ registered = FALSE

\* the acquisition variables when no pass is being modelled
AcqIdle ==
    /\ platform = "posix"
    /\ releaseChannel = "stable"
    /\ forceCleanInstall = FALSE
    /\ executablePath = "v"
    /\ bins = {}
    /\ fs = [p \in StorePaths |-> "absent"]
    /\ linkTarget = "none"
    /\ storeVer = <<>>
    /\ otherVer = <<>>
    /\ xbit = {}
    /\ env0 = <<fs, bins, linkTarget, storeVer, xbit>>
    /\ pc = "idle"
    /\ ctx = "none"
    /\ selection = "none"
    /\ asset = NoAsset
    /\ isUpdate = FALSE
    /\ installedVersion = Undefined
    /\ calls = <<>>
    /\ hvProbe = "none"
    /\ presentAtStart = FALSE
    /\ prior = [dir |-> "absent", exec |-> "absent"]
    /\ failedAt = "none"
    /\ shown = {}
    /\ logged = FALSE
    /\ registered = FALSE

(***************************************************************************)
(* Compiler acquisition: one pass of activate -> handleVinstallation       *)
(***************************************************************************)
Called(name) == calls' = Append(calls, name)
Show(kind) == shown' = shown \cup {kind}

\* An exception leaves the routine that raised it.  Under checkUpdates it is
\* caught and logged (try/catch of checkUpdates); under installV and in
\* removeV nothing catches it and handleVinstallation rejects.
Throw(step) ==
    /\ failedAt' = step
    /\ IF ctx = "checkUpdates"
       THEN pc' = "hv_resolved" /\ logged' = TRUE
       ELSE pc' = "hv_rejected" /\ UNCHANGED logged

\* activate: await handleVinstallation()
activate ==
    /\ pc = "activate"
    /\ pc' = "handleVinstallation"
    /\ UNCHANGED <<versionVars, relVars, lnVars, setupVars, clientVars, cfgVars, envVars>>
    /\ UNCHANGED <<ctx, selection, asset, isUpdate, installedVersion>>
    /\ UNCHANGED obsVars

\* handleVinstallation: the forceCleanInstall test
\* variant that removes the compiler at the start of every pass
ShouldClean_always(force) == TRUE

\* if (config().get<boolean>("forceCleanInstall"))
ShouldClean(force) == force

handleVinstallation ==
    /\ pc = "handleVinstallation"
    /\ Called("handleVinstallation")
    /\ IF ShouldClean(forceCleanInstall)
       THEN pc' = "removeV" /\ Show("info")
       ELSE pc' = "hv_probe" /\ UNCHANGED shown
    /\ UNCHANGED <<versionVars, relVars, lnVars, setupVars, clientVars, cfgVars, envVars>>
    /\ UNCHANGED <<ctx, selection, asset, isUpdate, installedVersion>>
    /\ UNCHANGED <<hvProbe, prior, failedAt, logged, registered>>

removeV ==
    /\ pc = "removeV"
    /\ Called("removeV")
    /\ LET vPath == findVBinary
       IN  IF vPath = "none"
           THEN /\ pc' = "hv_probe"
                /\ UNCHANGED <<bins, linkTarget, shown, failedAt, logged>>
           ELSE \/ /\ linkTarget' = IF vPath = "link" THEN "none" ELSE linkTarget
                   /\ bins' = IF vPath = "sys" THEN bins \ {"sys"} ELSE bins
                   /\ Show("info")
                   /\ pc' = "hv_probe"
                   /\ UNCHANGED <<failedAt, logged>>
                \/ /\ Show("error")         \* unlink rejects
                   /\ Throw("removeV")
                   /\ UNCHANGED <<bins, linkTarget>>
    /\ UNCHANGED <<versionVars, relVars, lnVars, setupVars, clientVars, cfgVars, fs, storeVer, xbit>>
    /\ UNCHANGED <<ctx, selection, asset, isUpdate, installedVersion>>
    /\ UNCHANGED <<hvProbe, prior, registered>>

\* const { installed } = await isVInstalled()
hv_probe ==
    /\ pc = "hv_probe"
    /\ Called("isVInstalled")
    /\ hvProbe' = IF isVInstalled.installed THEN "present" ELSE "absent"
    /\ pc' = IF isVInstalled.installed THEN "checkUpdates" ELSE "hv_prompt"
    /\ UNCHANGED <<versionVars, relVars, lnVars, setupVars, clientVars, cfgVars, envVars>>
    /\ UNCHANGED <<ctx, selection, asset, isUpdate, installedVersion>>
    /\ UNCHANGED <<prior, failedAt, shown, logged, registered>>

\* if (selection === "Yes")
ConsentGiven_notNo(sel) == sel # "No"

ConsentGiven(sel) == sel = "Yes"

\* the modal prompt of handleVinstallation: "Yes", "No" or dismissed
hv_prompt ==
    /\ pc = "hv_prompt"
    /\ \E sel \in {"Yes", "No", "dismissed"} :
          /\ selection' = sel
          /\ pc' = IF ConsentGiven(sel) THEN "installV" ELSE "hv_resolved"
    /\ Show("info")
    /\ UNCHANGED <<versionVars, relVars, lnVars, setupVars, clientVars, cfgVars, envVars>>
    /\ UNCHANGED <<ctx, asset, isUpdate, installedVersion>>
    /\ UNCHANGED <<calls, hvProbe, prior, failedAt, logged, registered>>

\* the switch of installV
InstallVRoute_defaultStable(channel) ==
    CASE channel = "stable" -> "getLatestStableAssetUrl"
      [] channel = "nightly" -> "getLatestAssetUrl"
      [] channel = "custom" -> "buildVfromPath"
      [] OTHER -> "getLatestStableAssetUrl"

InstallVRoute(channel) ==
    CASE channel = "stable" -> "getLatestStableAssetUrl"
      [] channel = "nightly" -> "getLatestAssetUrl"
      [] channel = "custom" -> "buildVfromPath"
      [] OTHER -> "buildVfromPath"

installV ==
    /\ pc = "installV"
    /\ Called("installV")
    /\ ctx' = "installV"
    /\ pc' = InstallVRoute(releaseChannel)
    /\ UNCHANGED <<versionVars, relVars, lnVars, setupVars, clientVars, cfgVars, envVars>>
    /\ UNCHANGED <<selection, asset, isUpdate, installedVersion>>
    /\ UNCHANGED <<hvProbe, prior, failedAt, shown, logged, registered>>

\* where the resolver's caller goes on with the asset
AfterResolve == IF ctx = "checkUpdates" THEN "cu_probe" ELSE "installVFromAsset"

\* The release listing is the server's: the resolver either throws (HTTP
\* failure, malformed payload, no stable release, no asset) or returns a tag
\* and the URL of an asset.
getLatestStableAssetUrl ==
    /\ pc = "getLatestStableAssetUrl"
    /\ Called("getLatestStableAssetUrl")
    /\ \/ /\ \E t \in StableTags, e \in Extensions, l \in Layouts :
                asset' = [def |-> TRUE, version |-> t, ext |-> e, top |-> l]
          /\ pc' = AfterResolve
          /\ UNCHANGED <<failedAt, logged>>
       \/ /\ Throw("resolve")
          /\ UNCHANGED asset
    /\ UNCHANGED <<versionVars, relVars, lnVars, setupVars, clientVars, cfgVars, envVars>>
    /\ UNCHANGED <<ctx, selection, isUpdate, installedVersion>>
    /\ UNCHANGED <<hvProbe, prior, shown, registered>>

getLatestAssetUrl ==
    /\ pc = "getLatestAssetUrl"
    /\ Called("getLatestAssetUrl")
    /\ \/ /\ \E t \in LatestTags, e \in Extensions, l \in Layouts :
                asset' = [def |-> TRUE, version |-> t, ext |-> e, top |-> l]
          /\ pc' = AfterResolve
          /\ UNCHANGED <<failedAt, logged>>
       \/ /\ Throw("resolve")
          /\ UNCHANGED asset
    /\ UNCHANGED <<versionVars, relVars, lnVars, setupVars, clientVars, cfgVars, envVars>>
    /\ UNCHANGED <<ctx, selection, isUpdate, installedVersion>>
    /\ UNCHANGED <<hvProbe, prior, shown, registered>>

\* installVFromAsset, up to its first await
installVFromAsset ==
    /\ pc = "installVFromAsset"
    /\ Called("installVFromAsset")
    /\ prior' = [dir |-> fs[vDir], exec |-> fs[vExecPath]]
    /\ pc' = "iva_clean"
    /\ UNCHANGED <<versionVars, relVars, lnVars, setupVars, clientVars, cfgVars, envVars>>
    /\ UNCHANGED <<ctx, selection, asset, isUpdate, installedVersion>>
    /\ UNCHANGED <<hvProbe, failedAt, shown, logged, registered>>

\* The clean-up try block (its failure is only console.warn'ed), then
\* mkdirSync and the removal of a left-over temporary file.
iva_clean ==
    /\ pc = "iva_clean"
    /\ \/ fs' = [fs EXCEPT ![vDir] = "absent", ![vExecPath] = "absent",
                           ![tmpFile] = "absent"]
       \/ /\ existsSync(vDir)               \* rm(vDir) rejects
          /\ fs' = [fs EXCEPT ![tmpFile] = "absent"]
       \/ /\ vExecPath # vDir               \* rm(vExecPath) rejects
          /\ existsSync(vExecPath)
          /\ fs' = [fs EXCEPT ![vDir] = "absent", ![tmpFile] = "absent"]
    /\ pc' = "iva_download"
    /\ UNCHANGED <<versionVars, relVars, lnVars, setupVars, clientVars, cfgVars, bins, linkTarget, storeVer, xbit>>
    /\ UNCHANGED <<ctx, selection, asset, isUpdate, installedVersion>>
    /\ UNCHANGED obsVars

\* await downloadFile(assetUrl, tmpFile)
downloadFile ==
    /\ pc = "iva_download"
    /\ \/ /\ fs' = [fs EXCEPT ![tmpFile] = "new"]
          /\ pc' = "iva_extract"
          /\ UNCHANGED <<failedAt, logged>>
       \/ /\ \E c \in {"absent", "partial"} : fs' = [fs EXCEPT ![tmpFile] = c]
          /\ Throw("download")
    /\ UNCHANGED <<versionVars, relVars, lnVars, setupVars, clientVars, cfgVars, bins, linkTarget, storeVer, xbit>>
    /\ UNCHANGED <<ctx, selection, asset, isUpdate, installedVersion>>
    /\ UNCHANGED <<calls, hvProbe, prior, shown, registered>>

\* dispatch on the URL's suffix; the extractor starts to write under storageDir
iva_extract ==
    /\ pc = "iva_extract"
    /\ IF asset.ext \in {"zip", "tar.gz"}
       THEN \/ /\ fs' = [fs EXCEPT ![vDir] = "partial"]
               /\ pc' = "iva_extracting"
               /\ UNCHANGED <<failedAt, logged>>
            \/ /\ Throw("extract")          \* the archive cannot be opened
               /\ UNCHANGED fs
       ELSE /\ Throw("format")
            /\ UNCHANGED fs
    /\ UNCHANGED <<versionVars, relVars, lnVars, setupVars, clientVars, cfgVars, bins, linkTarget, storeVer, xbit>>
    /\ UNCHANGED <<ctx, selection, asset, isUpdate, installedVersion>>
    /\ UNCHANGED <<calls, hvProbe, prior, shown, registered>>

\* the extractor finishes or fails part-way; then fs.unlinkSync(tmpFile)
iva_extracting ==
    /\ pc = "iva_extracting"
    /\ \/ /\ fs' = [fs EXCEPT ![vDir] = "new", ![tmpFile] = "absent"]
          /\ storeVer' = VersionOutputOf(asset.version)
          /\ pc' = "iva_symlink"
          /\ UNCHANGED <<failedAt, logged>>
       \/ /\ Throw("extract")
          /\ UNCHANGED <<fs, storeVer>>
    /\ UNCHANGED <<versionVars, relVars, lnVars, setupVars, clientVars, cfgVars, bins, linkTarget, xbit>>
    /\ UNCHANGED <<ctx, selection, asset, isUpdate, installedVersion>>
    /\ UNCHANGED <<calls, hvProbe, prior, shown, registered>>

\* variant in which the step after the symlink try/catch is a rejection
AfterSymlink_rejects(routine) == "hv_rejected"

\* where the routine goes on after its symlink try/catch, whether or not the
\* symlink command failed
AfterSymlink(routine) ==
    IF routine = "installVFromAsset" THEN "iva_verify" ELSE "hv_resolved"

\* The symlink command, run with cwd vDir (a failure is a warning; it cannot
\* run when vDir is not a directory), then chmodSync(vExecPath).
iva_symlink ==
    /\ pc = "iva_symlink"
    /\ \/ /\ asset.top = "directory"
          /\ linkTarget' = "store" /\ Show("info") /\ Called("symlink")
       \/ UNCHANGED linkTarget /\ Show("warning") /\ Called("symlink_failed")
    /\ xbit' = IF existsSync(vExecPath) THEN xbit \cup {vExecPath} ELSE xbit
    /\ pc' = AfterSymlink("installVFromAsset")
    /\ UNCHANGED <<versionVars, relVars, lnVars, setupVars, clientVars, cfgVars, fs, bins, storeVer>>
    /\ UNCHANGED <<ctx, selection, asset, isUpdate, installedVersion>>
    /\ UNCHANGED <<hvProbe, prior, failedAt, logged, registered>>

\* isVInstalled never rejects, so the verification cannot throw
iva_verify ==
    /\ pc = "iva_verify"
    /\ Called("isVInstalled")
    /\ IF isVInstalled.installed THEN Show("info") ELSE UNCHANGED shown
    /\ pc' = "hv_resolved"
    /\ UNCHANGED <<versionVars, relVars, lnVars, setupVars, clientVars, cfgVars, envVars>>
    /\ UNCHANGED <<ctx, selection, asset, isUpdate, installedVersion>>
    /\ UNCHANGED <<hvProbe, prior, failedAt, logged, registered>>

\* buildVfromPath: the check of the configured build path
buildVfromPath ==
    /\ pc = "buildVfromPath"
    /\ Called("buildVfromPath")
    /\ \/ /\ pc' = "bvp_make"
          /\ UNCHANGED <<failedAt, shown, logged>>
       \/ /\ Show("error")                  \* path unset or missing
          /\ Throw("buildPath")
    /\ UNCHANGED <<versionVars, relVars, lnVars, setupVars, clientVars, cfgVars, envVars>>
    /\ UNCHANGED <<ctx, selection, asset, isUpdate, installedVersion>>
    /\ UNCHANGED <<hvProbe, prior, registered>>

\* variant in which a failed build is not rethrown
MakeFatal_never(ok) == FALSE

\* the outer catch of buildVfromPath rethrows the failure of `make`
MakeFatal(ok) == ~ok

\* await execAsync("make")
bvp_make ==
    /\ pc = "bvp_make"
    /\ \E ok \in BOOLEAN :
          /\ Called(IF ok THEN "make" ELSE "make_failed")
          /\ IF MakeFatal(ok)
             THEN /\ Show("error")
                  /\ Throw("make")
             ELSE /\ pc' = "bvp_symlink"
                  /\ UNCHANGED <<failedAt, shown, logged>>
    /\ UNCHANGED <<versionVars, relVars, lnVars, setupVars, clientVars, cfgVars, envVars>>
    /\ UNCHANGED <<ctx, selection, asset, isUpdate, installedVersion>>
    /\ UNCHANGED <<hvProbe, prior, registered>>

\* the symlink command of buildVfromPath (a failure is a warning)
bvp_symlink ==
    /\ pc = "bvp_symlink"
    /\ \/ linkTarget' = "repo" /\ Show("info") /\ Called("symlink")
       \/ UNCHANGED linkTarget /\ Show("warning") /\ Called("symlink_failed")
    /\ pc' = AfterSymlink("buildVfromPath")
    /\ UNCHANGED <<versionVars, relVars, lnVars, setupVars, clientVars, cfgVars, fs, bins, storeVer, xbit>>
    /\ UNCHANGED <<ctx, selection, asset, isUpdate, installedVersion>>
    /\ UNCHANGED <<hvProbe, prior, failedAt, logged, registered>>

\* the branch of checkUpdates on the channel (undefined counts as stable)
CheckUpdatesRoute(channel) ==
    CASE channel = "custom" -> "hv_resolved"
      [] channel = "nightly" -> "updateNightlyBuild"
      [] OTHER -> "getLatestStableAssetUrl"

checkUpdates ==
    /\ pc = "checkUpdates"
    /\ Called("checkUpdates")
    /\ ctx' = "checkUpdates"
    /\ pc' = CheckUpdatesRoute(IF releaseChannel = "undefined" THEN "stable"
                               ELSE releaseChannel)
    /\ UNCHANGED <<versionVars, relVars, lnVars, setupVars, clientVars, cfgVars, envVars>>
    /\ UNCHANGED <<selection, asset, isUpdate, installedVersion>>
    /\ UNCHANGED <<hvProbe, prior, failedAt, shown, logged, registered>>

\* `${vexec} up`: its failure is caught inside updateNightlyBuild
updateNightlyBuild ==
    /\ pc = "updateNightlyBuild"
    /\ Called("updateNightlyBuild")
    /\ \/ Show("info") /\ UNCHANGED logged
       \/ Show("warning") /\ logged' = TRUE
    /\ pc' = "hv_resolved"
    /\ UNCHANGED <<versionVars, relVars, lnVars, setupVars, clientVars, cfgVars, envVars>>
    /\ UNCHANGED <<ctx, selection, asset, isUpdate, installedVersion>>
    /\ UNCHANGED <<hvProbe, prior, failedAt, registered>>

\* if (isUpToDate(installedVersion, latest.version)) return
NeedsUpdate_always(installed, target) == TRUE

NeedsUpdate(installed, target) == ~isUpToDate(installed, Str(target))

\* the second probe of checkUpdates and the comparison that follows it
cu_probe ==
    /\ pc = "cu_probe"
    /\ Called("isVInstalled")
    /\ installedVersion' = isVInstalled.version
    /\ IF NeedsUpdate(isVInstalled.version, asset.version)
       THEN pc' = "installVFromAsset" /\ isUpdate' = TRUE
       ELSE pc' = "hv_resolved" /\ UNCHANGED isUpdate
    /\ UNCHANGED <<versionVars, relVars, lnVars, setupVars, clientVars, cfgVars, envVars>>
    /\ UNCHANGED <<ctx, selection, asset>>
    /\ UNCHANGED <<hvProbe, prior, failedAt, shown, logged, registered>>

\* activate goes on: await registerCommands(context)
registerCommands ==
    /\ pc = "hv_resolved"
    /\ registered' = TRUE
    /\ pc' = "activated"
    /\ UNCHANGED <<versionVars, relVars, lnVars, setupVars, clientVars, cfgVars, envVars>>
    /\ UNCHANGED <<ctx, selection, asset, isUpdate, installedVersion>>
    /\ UNCHANGED <<calls, hvProbe, prior, failedAt, shown, logged>>

\* the rejection of handleVinstallation rejects activate
activate_rejects ==
    /\ pc = "hv_rejected"
    /\ pc' = "activate_rejected"
    /\ UNCHANGED <<versionVars, relVars, lnVars, setupVars, clientVars, cfgVars, envVars>>
    /\ UNCHANGED <<ctx, selection, asset, isUpdate, installedVersion>>
    /\ UNCHANGED obsVars

(***************************************************************************)
(* Language-client lifecycle: activate, createAndStartClient and the       *)
(* onDidChangeConfiguration listener                                       *)
(***************************************************************************)
MaxEvents == 3
MaxCommands == 1
Handlers == 0..MaxEvents            \* 0 is activate, h > 0 the h-th event's handler
ClientIds == 1..(MaxEvents + 1)
Answers == {"Yes", "No", "dismissed"}
\* extension.ts holds two revisions of the module: 1 is lines 1-104, 2 is
\* lines 106-216
Revisions == {1, 2}

\* what a handler saw when its event arrived, how it reacted, what it was
\* answered, and whether its start attempt failed
NoObs == [kind |-> "none", vlsEnabled |-> FALSE, hadClient |-> FALSE,
          react |-> "none", selected |-> "none", failed |-> FALSE]
\* the last v.vls.restart / v.vls.update command: the module-level client
\* when it was invoked, the client it acted on, and what it did
NoCmd == [name |-> "none", current |-> 0, target |-> 0,
          stop |-> "none", start |-> "none", reported |-> FALSE]
\* the second argument registerVlsCommands was called with
Unregistered == [reg |-> FALSE, kind |-> "value", val |-> 0]

ClientInit ==
    /\ enable \in BOOLEAN
    /\ revision \in Revisions
    /\ client = 0
    /\ cstate = [c \in ClientIds |-> "none"]
    /\ hpc = [h \in Handlers |->
                IF h # 0 THEN "idle"
                ELSE IF revision = 2 THEN "handleVinstallation" ELSE "activate"]
    /\ hcl = [h \in Handlers |-> 0]
    /\ nEvents = 0
    /\ listening = FALSE
    /\ stopCalls = [c \in ClientIds |-> 0]
    /\ captured = Unregistered
    /\ cmd = NoCmd
    /\ nCmds = 0
    /\ hobs = [h \in Handlers |-> NoObs]

\* the client variables when the lifecycle is not being modelled
ClientIdle ==
    /\ enable = FALSE
    /\ revision = 2
    /\ client = 0
    /\ cstate = [c \in ClientIds |-> "none"]
    /\ hpc = [h \in Handlers |-> "idle"]
    /\ hcl = [h \in Handlers |-> 0]
    /\ nEvents = 0
    /\ listening = FALSE
    /\ stopCalls = [c \in ClientIds |-> 0]
    /\ captured = Unregistered
    /\ cmd = NoCmd
    /\ nCmds = 0
    /\ hobs = [h \in Handlers |-> NoObs]

\* the object `new LanguageClient(...)` returns
NewClient == 1 + Cardinality({c \in ClientIds : cstate[c] # "none"})

\* where the caller of createAndStartClient goes on (both callers catch)
AfterCreateAndStart(h) == IF h = 0 THEN "register" ELSE "done"

\* where the caller of handleVinstallation goes on
AfterInstall(h) == IF h = 0 THEN "activate" ELSE "done"

\* activate: if (isVlsEnabled()) await createAndStartClient()
activate_vls ==
    /\ hpc[0] = "activate"
    /\ hpc' = [hpc EXCEPT ![0] = IF enable THEN "getVls" ELSE "register"]
    /\ UNCHANGED <<enable, client, cstate, hcl, nEvents, listening>>
    /\ UNCHANGED <<stopCalls, revision, captured, cmd, nCmds, hobs>>
    /\ UNCHANGED <<versionVars, relVars, lnVars, setupVars, acqVars>>

\* if (vlsEnabled && !client)
MayStart(vlsEnabled, cl) == vlsEnabled /\ cl = 0

\* createAndStartClient: `await getVls()` settles; on success the client is
\* created, assigned to `client` and client.start() is called
createAndStartClient(h) ==
    /\ hpc[h] = "getVls"
    /\ \/ /\ NewClient \in ClientIds
          /\ client' = NewClient
          /\ cstate' = [cstate EXCEPT ![NewClient] = "starting"]
          /\ hcl' = [hcl EXCEPT ![h] = NewClient]
          /\ hpc' = [hpc EXCEPT ![h] = "start"]
          /\ UNCHANGED hobs
       \/ /\ hpc' = [hpc EXCEPT ![h] = AfterCreateAndStart(h)]   \* getVls rejects
          /\ hobs' = [hobs EXCEPT ![h].failed = TRUE]
          /\ UNCHANGED <<client, cstate, hcl>>
    /\ UNCHANGED <<enable, nEvents, listening>>
    /\ UNCHANGED <<stopCalls, revision, captured, cmd, nCmds>>
    /\ UNCHANGED <<versionVars, relVars, lnVars, setupVars, acqVars>>

\* `await client.start()` settles.  In revision 1 activate then calls
\* registerVlsCommands(context, client), inside the try block.
client_start(h) ==
    /\ hpc[h] = "start"
    /\ \E ok \in BOOLEAN :
          /\ cstate' = [cstate EXCEPT ![hcl[h]] =
                           IF @ = "starting" THEN (IF ok THEN "running" ELSE "failed")
                           ELSE @]
          /\ hobs' = [hobs EXCEPT ![h].failed = ~ok]
          /\ captured' = IF ok /\ h = 0 /\ revision = 1
                         THEN [reg |-> TRUE, kind |-> "value", val |-> client]
                         ELSE captured
    /\ hpc' = [hpc EXCEPT ![h] = AfterCreateAndStart(h)]
    /\ UNCHANGED <<enable, client, hcl, nEvents, listening>>
    /\ UNCHANGED <<stopCalls, revision, cmd, nCmds>>
    /\ UNCHANGED <<versionVars, relVars, lnVars, setupVars, acqVars>>

\* activate: workspace.onDidChangeConfiguration; in revision 2 preceded by
\* registerVlsCommands(context, () => client)
activate_listen ==
    /\ hpc[0] = "register"
    /\ listening' = TRUE
    /\ captured' = IF revision = 2
                   THEN [reg |-> TRUE, kind |-> "getter", val |-> 0]
                   ELSE captured
    /\ hpc' = [hpc EXCEPT ![0] = "done"]
    /\ UNCHANGED <<enable, client, cstate, hcl, nEvents>>
    /\ UNCHANGED <<stopCalls, revision, cmd, nCmds, hobs>>
    /\ UNCHANGED <<versionVars, relVars, lnVars, setupVars, acqVars>>

\* an event that affects v.vls.enable: the setting is toggled
onEnableChanged ==
    /\ listening /\ nEvents < MaxEvents
    /\ LET h == nEvents + 1
           vlsEnabled == ~enable
           react == IF MayStart(vlsEnabled, client) THEN "start"
                    ELSE IF ~vlsEnabled /\ client # 0 THEN "stop"
                    ELSE "none"
       IN  /\ enable' = vlsEnabled
           /\ nEvents' = h
           /\ hobs' = [hobs EXCEPT ![h] =
                         [NoObs EXCEPT !.kind = "enable", !.vlsEnabled = vlsEnabled,
                                       !.hadClient = (client # 0), !.react = react]]
           /\ IF react = "start"
              THEN /\ hpc' = [hpc EXCEPT ![h] = "getVls"]
                   /\ UNCHANGED <<cstate, hcl, stopCalls>>
              ELSE IF react = "stop"
              THEN /\ hpc' = [hpc EXCEPT ![h] = "stopping"]     \* client.stop()
                   /\ hcl' = [hcl EXCEPT ![h] = client]
                   /\ stopCalls' = [stopCalls EXCEPT ![client] = @ + 1]
                   /\ cstate' = [cstate EXCEPT ![client] =
                                    IF @ \in {"starting", "running"} THEN "stopping"
                                    ELSE @]
              ELSE /\ hpc' = [hpc EXCEPT ![h] = "done"]
                   /\ UNCHANGED <<cstate, hcl, stopCalls>>
    /\ UNCHANGED <<client, listening>>
    /\ UNCHANGED <<revision, captured, cmd, nCmds>>
    /\ UNCHANGED <<versionVars, relVars, lnVars, setupVars, acqVars>>

\* `await client.stop()` settles (a rejection is ignored); client = undefined
client_stopped(h) ==
    /\ hpc[h] = "stopping"
    /\ \/ cstate' = [cstate EXCEPT ![hcl[h]] = "stopped"]
       \/ UNCHANGED cstate
    /\ client' = 0
    /\ hpc' = [hpc EXCEPT ![h] = "done"]
    /\ UNCHANGED <<enable, hcl, nEvents, listening>>
    /\ UNCHANGED <<stopCalls, revision, captured, cmd, nCmds, hobs>>
    /\ UNCHANGED <<versionVars, relVars, lnVars, setupVars, acqVars>>

\* an event that affects another key under v.vls
onVlsChanged ==
    /\ listening /\ nEvents < MaxEvents
    /\ nEvents' = nEvents + 1
    /\ LET react == IF enable /\ client # 0 THEN "prompt" ELSE "none"
       IN  /\ hpc' = [hpc EXCEPT ![nEvents + 1] =
                         IF react = "prompt" THEN "prompt" ELSE "done"]
           /\ hobs' = [hobs EXCEPT ![nEvents + 1] =
                         [NoObs EXCEPT !.kind = "vls", !.vlsEnabled = enable,
                                       !.hadClient = (client # 0), !.react = react]]
    /\ UNCHANGED <<enable, client, cstate, hcl, listening>>
    /\ UNCHANGED <<stopCalls, revision, captured, cmd, nCmds>>
    /\ UNCHANGED <<versionVars, relVars, lnVars, setupVars, acqVars>>

\* variant in which every answer but "No" restarts
RestartOn_notNo(selected) == selected # "No"

\* if (selected == "Yes")
RestartOn(selected) == selected = "Yes"

\* the answer to "Restart is required ...": client.restart() on "Yes"
restart_prompt(h) ==
    /\ hpc[h] = "prompt"
    /\ \E selected \in Answers :
          /\ hobs' = [hobs EXCEPT ![h].selected = selected]
          /\ IF RestartOn(selected) /\ client # 0
             THEN /\ hpc' = [hpc EXCEPT ![h] = "restarting"]
                  /\ hcl' = [hcl EXCEPT ![h] = client]
             ELSE /\ hpc' = [hpc EXCEPT ![h] = "done"]
                  /\ UNCHANGED hcl
    /\ UNCHANGED <<enable, client, cstate, nEvents, listening>>
    /\ UNCHANGED <<stopCalls, revision, captured, cmd, nCmds>>
    /\ UNCHANGED <<versionVars, relVars, lnVars, setupVars, acqVars>>

\* `await client.restart()` settles
client_restarted(h) ==
    /\ hpc[h] = "restarting"
    /\ \E ok \in BOOLEAN :
          cstate' = [cstate EXCEPT ![hcl[h]] = IF ok THEN "running" ELSE "restart_failed"]
    /\ hpc' = [hpc EXCEPT ![h] = "done"]
    /\ UNCHANGED <<enable, client, hcl, nEvents, listening>>
    /\ UNCHANGED <<stopCalls, revision, captured, cmd, nCmds, hobs>>
    /\ UNCHANGED <<versionVars, relVars, lnVars, setupVars, acqVars>>

\* an event that affects v.releaseChannel only: in revision 2 the handler
\* awaits handleVinstallation(); revision 1 has no branch for it
onReleaseChannelChanged ==
    /\ listening /\ nEvents < MaxEvents
    /\ nEvents' = nEvents + 1
    /\ LET react == IF revision = 2 THEN "install" ELSE "none"
       IN  /\ hpc' = [hpc EXCEPT ![nEvents + 1] =
                         IF react = "install" THEN "handleVinstallation" ELSE "done"]
           /\ hobs' = [hobs EXCEPT ![nEvents + 1] =
                         [NoObs EXCEPT !.kind = "releaseChannel", !.vlsEnabled = enable,
                                       !.hadClient = (client # 0), !.react = react]]
    /\ UNCHANGED <<enable, client, cstate, hcl, listening>>
    /\ UNCHANGED <<stopCalls, revision, captured, cmd, nCmds>>
    /\ UNCHANGED <<versionVars, relVars, lnVars, setupVars, acqVars>>

\* that pass of handleVinstallation reaches installVFromAsset
handler_installing(h) ==
    /\ hpc[h] = "handleVinstallation"
    /\ hpc' = [hpc EXCEPT ![h] = "installVFromAsset"]
    /\ UNCHANGED <<enable, client, cstate, hcl, nEvents, listening>>
    /\ UNCHANGED <<stopCalls, revision, captured, cmd, nCmds, hobs>>
    /\ UNCHANGED <<versionVars, relVars, lnVars, setupVars, acqVars>>

\* that pass of handleVinstallation settles
handler_installed(h) ==
    /\ hpc[h] \in {"handleVinstallation", "installVFromAsset"}
    /\ hpc' = [hpc EXCEPT ![h] = AfterInstall(h)]
    /\ UNCHANGED <<enable, client, cstate, hcl, nEvents, listening>>
    /\ UNCHANGED <<stopCalls, revision, captured, cmd, nCmds, hobs>>
    /\ UNCHANGED <<versionVars, relVars, lnVars, setupVars, acqVars>>

\* deactivate: if (!client) return undefined; return client.stop().  The
\* listener is disposed with the extension's subscriptions.
deactivate ==
    /\ listening
    /\ listening' = FALSE
    /\ IF client # 0
       THEN /\ stopCalls' = [stopCalls EXCEPT ![client] = @ + 1]
            /\ cstate' = [cstate EXCEPT ![client] =
                             IF @ \in {"starting", "running"} THEN "stopping" ELSE @]
       ELSE UNCHANGED <<stopCalls, cstate>>
    /\ UNCHANGED <<enable, client, hpc, hcl, nEvents>>
    /\ UNCHANGED <<revision, captured, cmd, nCmds, hobs>>
    /\ UNCHANGED <<versionVars, relVars, lnVars, setupVars, acqVars>>

(***************************************************************************)
(* The v.vls.restart and v.vls.update commands (commands.ts), invoked with *)
(* the argument registerVlsCommands was given                              *)
(***************************************************************************)
\* restartVls(cli).  A getter handed over as `cli` has no restart method:
\* the call throws a TypeError inside the try block.
cmd_restart ==
    /\ captured.reg /\ nCmds < MaxCommands
    /\ nCmds' = nCmds + 1
    /\ IF captured.kind = "value" /\ captured.val = 0
       THEN /\ cmd' = [NoCmd EXCEPT !.name = "restart", !.current = client,
                                    !.reported = TRUE]
            /\ UNCHANGED cstate
       ELSE IF captured.kind = "getter"
       THEN /\ cmd' = [NoCmd EXCEPT !.name = "restart", !.current = client,
                                    !.start = "typeerror", !.reported = TRUE]
            /\ UNCHANGED cstate
       ELSE \E ok \in BOOLEAN :
               /\ cstate' = [cstate EXCEPT ![captured.val] =
                                IF ok THEN "running" ELSE "restart_failed"]
               /\ cmd' = [NoCmd EXCEPT !.name = "restart", !.current = client,
                                       !.target = captured.val,
                                       !.start = IF ok THEN "ok" ELSE "failed",
                                       !.reported = ~ok]
    /\ UNCHANGED <<enable, client, hpc, hcl, nEvents, listening>>
    /\ UNCHANGED <<stopCalls, revision, captured, hobs>>
    /\ UNCHANGED <<versionVars, relVars, lnVars, setupVars, acqVars>>

\* try { await client.stop(); await client.start() }: start() runs only when
\* stop() did not throw
StartsAfterStop(stopOk) == stopOk

\* updateVls(client): if (client) { try { stop; start } catch { report } }
cmd_update ==
    /\ captured.reg /\ nCmds < MaxCommands
    /\ nCmds' = nCmds + 1
    /\ IF captured.kind = "value" /\ captured.val = 0
       THEN /\ cmd' = [NoCmd EXCEPT !.name = "update", !.current = client]
            /\ UNCHANGED cstate
       ELSE IF captured.kind = "getter"
       THEN /\ cmd' = [NoCmd EXCEPT !.name = "update", !.current = client,
                                    !.stop = "typeerror", !.reported = TRUE]
            /\ UNCHANGED cstate
       ELSE \E stopOk \in BOOLEAN, startOk \in BOOLEAN :
               LET c == captured.val
                   starts == StartsAfterStop(stopOk)
               IN  /\ cstate' = [cstate EXCEPT ![c] =
                                    IF ~starts THEN (IF stopOk THEN "stopped" ELSE @)
                                    ELSE IF startOk THEN "running" ELSE "failed"]
                   /\ cmd' = [name |-> "update", current |-> client, target |-> c,
                              stop |-> IF stopOk THEN "ok" ELSE "failed",
                              start |-> IF ~starts THEN "none"
                                        ELSE IF startOk THEN "ok" ELSE "failed",
                              reported |-> (~stopOk \/ ~startOk)]
    /\ UNCHANGED <<enable, client, hpc, hcl, nEvents, listening>>
    /\ UNCHANGED <<stopCalls, revision, captured, hobs>>
    /\ UNCHANGED <<versionVars, relVars, lnVars, setupVars, acqVars>>

ClientNext ==
    \/ activate_vls
    \/ deactivate
    \/ activate_listen
    \/ onEnableChanged
    \/ onVlsChanged
    \/ onReleaseChannelChanged
    \/ cmd_restart
    \/ cmd_update
    \/ \E h \in Handlers :
          \/ createAndStartClient(h)
          \/ client_start(h)
          \/ client_stopped(h)
          \/ restart_prompt(h)
          \/ client_restarted(h)
          \/ handler_installing(h)
          \/ handler_installed(h)

(***************************************************************************)
(* Release resolution (vUtils): the GitHub payload, selectAssetForPlatform *)
(* and the two resolvers, as functions of the response and the host        *)
(***************************************************************************)
\* String.prototype.includes
includes(s, fragment) ==
    \E i \in 1..(Len(s) - Len(fragment) + 1) :
        SubSeq(s, i, i + Len(fragment) - 1) = fragment

\* String.prototype.startsWith
startsWith(s, prefix) ==
    Len(s) >= Len(prefix) /\ SubSeq(s, 1, Len(prefix)) = prefix

\* the fragments selectAssetForPlatform looks for
f_v_windows == <<"v", "_", "w", "i", "n", "d", "o", "w", "s">>
f_windows == <<"w", "i", "n", "d", "o", "w", "s">>
f_win == <<"w", "i", "n">>
f_arm == <<"a", "r", "m">>
f_v_linux_arm64 == <<"v", "_", "l", "i", "n", "u", "x", "_", "a", "r", "m", "6", "4">>
f_linux == <<"l", "i", "n", "u", "x">>
f_arm64 == <<"a", "r", "m", "6", "4">>
f_aarch64 == <<"a", "a", "r", "c", "h", "6", "4">>
f_v_linux == <<"v", "_", "l", "i", "n", "u", "x">>
f_v_macos_arm64 == <<"v", "_", "m", "a", "c", "o", "s", "_", "a", "r", "m", "6", "4">>
f_macos == <<"m", "a", "c", "o", "s">>
f_darwin == <<"d", "a", "r", "w", "i", "n">>
f_v_macos_x86_64 == <<"v", "_", "m", "a", "c", "o", "s", "_", "x", "8", "6", "_", "6", "4">>
f_x86_64 == <<"x", "8", "6", "_", "6", "4">>
f_x64 == <<"x", "6", "4">>

\* asset names
n_windows_x64 == <<"w", "i", "n", "d", "o", "w", "s", "_", "x", "6", "4">>
n_linux_arm64 == <<"l", "i", "n", "u", "x", "_", "a", "r", "m", "6", "4">>
n_macos_arm64 == <<"m", "a", "c", "o", "s", "_", "a", "r", "m", "6", "4">>
n_v_linux_arm64 == <<"v", "_", "l", "i", "n", "u", "x", "_", "a", "r", "m", "6", "4">>
n_v_linux == <<"v", "_", "l", "i", "n", "u", "x">>
n_Linux_AArch64 == <<"L", "i", "n", "u", "x", "_", "A", "A", "r", "c", "h", "6", "4">>
n_darwin_x64 == <<"d", "a", "r", "w", "i", "n", "_", "x", "6", "4">>
n_src == <<"s", "r", "c">>

\* a JSON value read as a GitHubAsset: typeof of each field, and the name
Asset(n) == [obj |-> TRUE, nameT |-> "string", name |-> n, urlT |-> "string"]

isGitHubAsset(value) ==
    value.obj /\ value.nameT = "string" /\ value.urlT = "string"

\* a JSON value read as a GitHubRelease: typeof of each field, and the values
Release(d, p, tag, as) ==
    [obj |-> TRUE, draftT |-> "boolean", draft |-> d,
     prereleaseT |-> "boolean", prerelease |-> p,
     tagT |-> "string", tag_name |-> tag, assetsArr |-> TRUE, assets |-> as]

isGitHubRelease(value) ==
    /\ value.obj
    /\ value.draftT = "boolean"
    /\ value.prereleaseT = "boolean"
    /\ value.tagT = "string"
    /\ value.assetsArr
    /\ \A i \in DOMAIN value.assets : isGitHubAsset(value.assets[i])

\* assets.find(...) of matchAsset: the position of the first asset whose
\* lowercased name holds every needle and no ban, 0 for undefined
matchAsset(assets, needles, bans) ==
    LET wanted == [i \in DOMAIN needles |-> toLowerCase(needles[i])]
        blocked == [i \in DOMAIN bans |-> toLowerCase(bans[i])]
        hit(a) ==
            LET name == toLowerCase(a.name)
            IN  /\ \A i \in DOMAIN wanted : includes(name, wanted[i])
                /\ ~\E i \in DOMAIN blocked : includes(name, blocked[i])
        at == {i \in DOMAIN assets : hit(assets[i])}
    IN  IF at = {} THEN 0 ELSE SetMin(at)

\* variant of ?? that prefers its right operand
Coalesce_right(a, b) == IF b # 0 THEN b ELSE a

\* a ?? b on positions
Coalesce(a, b) == IF a # 0 THEN a ELSE b

selectAssetForPlatform(assets, h) ==
    LET arm == <<f_arm64, f_aarch64>>
    IN
    IF h.platform = "win32"
    THEN Coalesce(matchAsset(assets, <<f_v_windows>>, <<>>),
         Coalesce(matchAsset(assets, <<f_windows>>, <<>>),
                  matchAsset(assets, <<f_win>>, <<f_arm>>)))
    ELSE IF h.platform = "linux"
    THEN IF h.arch = "arm64"
         THEN Coalesce(matchAsset(assets, <<f_v_linux_arm64>>, <<>>),
              Coalesce(matchAsset(assets, <<f_linux, f_arm64>>, <<>>),
                       matchAsset(assets, <<f_linux, f_aarch64>>, <<>>)))
         ELSE Coalesce(matchAsset(assets, <<f_v_linux>>, arm),
                       matchAsset(assets, <<f_linux>>, arm))
    ELSE IF h.platform = "darwin"
    THEN IF h.arch = "arm64"
         THEN Coalesce(matchAsset(assets, <<f_v_macos_arm64>>, <<>>),
              Coalesce(matchAsset(assets, <<f_macos, f_arm64>>, <<>>),
                       matchAsset(assets, <<f_darwin, f_arm64>>, <<>>)))
         ELSE Coalesce(matchAsset(assets, <<f_v_macos_x86_64>>, <<>>),
              Coalesce(matchAsset(assets, <<f_macos, f_x86_64>>, <<>>),
              Coalesce(matchAsset(assets, <<f_macos, f_x64>>, <<>>),
              Coalesce(matchAsset(assets, <<f_darwin, f_x64>>, <<>>),
                       matchAsset(assets, <<f_macos>>, <<>>)))))
    ELSE 0


\* what a resolver returns (a ReleaseAssetInfo) or throws
Thrown(msg) == [threw |-> TRUE, error |-> msg, version |-> <<>>, idx |-> 0, url |-> <<>>]
Returned(tag, as, i) ==
    [threw |-> FALSE, error |-> "", version |-> tag, idx |-> i, url |-> as[i].name]
NoResult == [threw |-> FALSE, error |-> "", version |-> <<>>, idx |-> 0, url |-> <<>>]

\* parsed.filter(isGitHubRelease)
FilterReleases(items) == SelectSeq(items, isGitHubRelease)

\* variant of the predicate of releases.find that lets prereleases through
IsStable_ignoresPrerelease(release) ==
    ~release.draft /\ ~startsWith(release.tag_name, WeeklyPrefix)

\* the predicate of releases.find
IsStable(release) ==
    ~release.draft /\ ~release.prerelease /\ ~startsWith(release.tag_name, WeeklyPrefix)

\* getLatestStableAssetUrl on the response b, on the host h
StableAssetOf(b, h) ==
    IF ~b.ok THEN Thrown("Failed to fetch releases")
    ELSE IF b.kind # "array" THEN Thrown("Unexpected release payload format")
    ELSE LET releases == FilterReleases(b.items)
             found == {i \in DOMAIN releases : IsStable(releases[i])}
         IN  IF found = {} THEN Thrown("No stable release found")
             ELSE LET stable == releases[SetMin(found)]
                      a == selectAssetForPlatform(stable.assets, h)
                  IN  IF a = 0 THEN Thrown("No matching binary for this OS")
                      ELSE Returned(stable.tag_name, stable.assets, a)

\* getLatestAssetUrl on the response b, on the host h
LatestAssetOf(b, h) ==
    IF ~b.ok THEN Thrown("Failed to fetch latest release")
    ELSE IF b.kind # "object" \/ ~isGitHubRelease(b.items[1])
    THEN Thrown("Unexpected release payload format")
    ELSE LET parsed == b.items[1]
             a == selectAssetForPlatform(parsed.assets, h)
         IN  IF a = 0 THEN Thrown("No matching binary for this OS")
             ELSE Returned(parsed.tag_name, parsed.assets, a)

(***************************************************************************)
(* Release resolution: responses and hosts the routines are applied to     *)
(***************************************************************************)
MaxReleases == 3
MaxAssets == 3

ClaimAssets == <<Asset(n_windows_x64), Asset(n_linux_arm64), Asset(n_macos_arm64)>>
StableRelease == Release(FALSE, FALSE, Triple0410, ClaimAssets)
OlderRelease == Release(FALSE, FALSE, Triple123, ClaimAssets)
DraftRelease == Release(TRUE, FALSE, Triple999, ClaimAssets)
PreRelease == Release(FALSE, TRUE, Triple999, ClaimAssets)
WeeklyRelease == Release(FALSE, FALSE, Weekly202415, ClaimAssets)
SourceOnlyRelease == Release(FALSE, FALSE, Triple999, <<Asset(n_src)>>)
ShapedReleases == {StableRelease, OlderRelease, DraftRelease, PreRelease,
                   WeeklyRelease, SourceOnlyRelease}

\* JSON values that are not of the release shape
MisshapenReleases ==
    {[OlderRelease EXCEPT !.draftT = "undefined"],
     [OlderRelease EXCEPT !.prereleaseT = "string"],
     [OlderRelease EXCEPT !.tagT = "number"],
     [OlderRelease EXCEPT !.assetsArr = FALSE, !.assets = <<>>],
     [OlderRelease EXCEPT !.assets = <<[Asset(n_linux_arm64) EXCEPT !.urlT = "undefined"]>>],
     [OlderRelease EXCEPT !.obj = FALSE]}

JsonItems == ShapedReleases \cup MisshapenReleases

SeqsUpTo(S, n) == UNION {[1..k -> S] : k \in 0..n}

\* res.ok and the parsed body: an array, one object, or any other JSON value
Bodies ==
    [ok : {TRUE}, kind : {"array"}, items : SeqsUpTo(JsonItems, MaxReleases)]
    \cup [ok : {TRUE}, kind : {"object"}, items : {<<e>> : e \in JsonItems}]
    \cup {[ok |-> TRUE, kind |-> "other", items |-> <<>>],
          [ok |-> FALSE, kind |-> "array", items |-> <<StableRelease>>],
          [ok |-> FALSE, kind |-> "object", items |-> <<StableRelease>>]}
NoBody == [ok |-> FALSE, kind |-> "other", items |-> <<>>]

Hosts == [platform : {"win32", "linux", "darwin", "freebsd"}, arch : {"x64", "arm64"}]
ResolverHosts == {[platform |-> "linux", arch |-> "arm64"],
                  [platform |-> "win32", arch |-> "x64"],
                  [platform |-> "freebsd", arch |-> "x64"]}
AssetNames == {n_windows_x64, n_linux_arm64, n_macos_arm64, n_v_linux_arm64,
               n_v_linux, n_Linux_AArch64, n_darwin_x64}

RelInit ==
    /\ relMode \in {"stable", "latest", "select"}
    /\ IF relMode = "select"
       THEN /\ host \in Hosts
            /\ body = NoBody
            /\ assetsIn \in SeqsUpTo({Asset(n) : n \in AssetNames}, MaxAssets)
       ELSE /\ host \in ResolverHosts
            /\ body \in Bodies
            /\ assetsIn = <<>>
    /\ result = NoResult
    /\ rpc = "request"

\* the release variables when no resolver is being modelled
RelIdle ==
    /\ relMode = "none"
    /\ host = [platform |-> "linux", arch |-> "x64"]
    /\ body = NoBody
    /\ assetsIn = <<>>
    /\ result = NoResult
    /\ rpc = "idle"

\* one call of getLatestStableAssetUrl
rel_stable ==
    /\ rpc = "request" /\ relMode = "stable"
    /\ result' = StableAssetOf(body, host)
    /\ rpc' = "done"
    /\ UNCHANGED <<host, relMode, body, assetsIn>>
    /\ UNCHANGED <<versionVars, lnVars, setupVars, acqVars, clientVars>>

\* one call of getLatestAssetUrl
rel_latest ==
    /\ rpc = "request" /\ relMode = "latest"
    /\ result' = LatestAssetOf(body, host)
    /\ rpc' = "done"
    /\ UNCHANGED <<host, relMode, body, assetsIn>>
    /\ UNCHANGED <<versionVars, lnVars, setupVars, acqVars, clientVars>>

\* one call of selectAssetForPlatform
rel_select ==
    /\ rpc = "request" /\ relMode = "select"
    /\ LET a == selectAssetForPlatform(assetsIn, host)
       IN  result' = IF a = 0 THEN NoResult ELSE Returned(<<>>, assetsIn, a)
    /\ rpc' = "done"
    /\ UNCHANGED <<host, relMode, body, assetsIn>>
    /\ UNCHANGED <<versionVars, lnVars, setupVars, acqVars, clientVars>>

(***************************************************************************)
(* The launcher's standard output (langserver, launcher-based snapshot)    *)
(***************************************************************************)
MaxLines == 2

\* Text is a sequence of tokens.  "a1" "a2" are the two halves of a status
\* line {"message": ...}; "b1" "bs" "b2" is a status line whose message holds
\* an escaped backslash ("bs"); "j" is a JSON value without a string message;
\* "x" is text that is not JSON; "\n" is the line terminator.
Newline == "\n"
PayloadA == <<"a1", "a2">>
PayloadB == <<"b1", "bs", "b2">>
NonPayload == <<"j">>
Garbage == <<"x">>
LineKinds == {PayloadA, PayloadB, NonPayload, Garbage}

\* data.replace(/\\/g, "/")
Escape(text) == [i \in DOMAIN text |-> IF text[i] = "bs" THEN "sl" ELSE text[i]]

RECURSIVE TrimLeft(_)
TrimLeft(text) ==
    IF text # <<>> /\ IsSpace(Head(text)) THEN TrimLeft(Tail(text)) ELSE text
RECURSIVE TrimRight(_)
TrimRight(text) ==
    IF text # <<>> /\ IsSpace(text[Len(text)])
    THEN TrimRight(SubSeq(text, 1, Len(text) - 1))
    ELSE text

\* the texts that are one JSON value
JsonTexts == {<<"a1", "a2">>, <<"b1", "bs", "b2">>, <<"b1", "sl", "b2">>, <<"j">>}
Null == [ok |-> FALSE, value |-> <<>>]

\* JSON.parse: exactly one JSON value, white space around it allowed;
\* anything else throws
JSONparse(text) ==
    LET core == TrimRight(TrimLeft(text))
    IN  IF core \in JsonTexts THEN [ok |-> TRUE, value |-> core] ELSE Null

\* typeof candidate.message === "string"
HasStringMessage(value) == value # NonPayload

parseLauncherPayload(serialized) ==
    LET parsed == JSONparse(serialized)
    IN  IF parsed.ok /\ HasStringMessage(parsed.value) THEN parsed ELSE Null

RECURSIVE Flatten(_)
\* what the launcher writes: every line followed by the terminator
Flatten(lines) ==
    IF lines = <<>> THEN <<>>
    ELSE Head(lines) \o <<Newline>> \o Flatten(Tail(lines))

LnInit ==
    /\ lnLines \in UNION {[1..k -> LineKinds] : k \in 0..MaxLines}
    /\ lnRest = Flatten(lnLines)
    /\ lnDelivered = <<>>
    /\ lnInvalid = 0

\* the launcher variables when no launcher runs
LnIdle ==
    /\ lnLines = <<>>
    /\ lnRest = <<>>
    /\ lnDelivered = <<>>
    /\ lnInvalid = 0

\* one "data" event of launcher.stdout: the stream hands over the next chunk,
\* cut wherever the pipe was read
receiveLauncherJsonData ==
    /\ lnRest # <<>>
    /\ \E k \in 1..Len(lnRest) :
          LET rawData == SubSeq(lnRest, 1, k)
              escaped == Escape(rawData)
              payload == parseLauncherPayload(escaped)
          IN  /\ lnRest' = SubSeq(lnRest, k + 1, Len(lnRest))
              /\ IF payload.ok
                 THEN /\ lnDelivered' = Append(lnDelivered, payload.value)  \* cb(payload)
                      /\ UNCHANGED lnInvalid
                 ELSE /\ lnInvalid' = lnInvalid + 1       \* log invalid payload
                      /\ UNCHANGED lnDelivered
    /\ UNCHANGED lnLines
    /\ UNCHANGED <<versionVars, relVars, acqVars, clientVars, setupVars>>

(***************************************************************************)
(* Setting up the language server (langserver.ts: getVls, installVls,      *)
(* buildVls) and the compiler (utils.ts: installV)                         *)
(***************************************************************************)
SetupRoutines == {"getVls", "installV", "ver"}

SetupInit ==
    /\ sRoutine \in SetupRoutines
    /\ spc = sRoutine
    /\ IF sRoutine = "getVls"
       THEN /\ sForce \in BOOLEAN
            /\ sBuild \in BOOLEAN
            /\ sBuildPath \in {"", "custom"}
            /\ vlsFile \in {"none", "stale"}
            /\ buildBin \in {"none", "stale"}
            /\ vOk \in BOOLEAN
       ELSE IF sRoutine = "installV"
       THEN /\ sForce = FALSE /\ sBuild = FALSE /\ sBuildPath = ""
            /\ vlsFile \in {"none", "stale"}
            /\ vOk = FALSE
            /\ buildBin \in {"none", "stale"}
       ELSE /\ sForce = FALSE /\ sBuild = FALSE /\ sBuildPath = ""
            /\ vlsFile \in {"none", "stale"}
            /\ vOk \in BOOLEAN
            /\ buildBin = "none"
    /\ vlsAtStart = vlsFile
    /\ sSelected = "none"
    /\ sCalls = <<>>
    /\ sFailed = "none"
    /\ sShown = "none"

\* the setup variables when no setup routine runs
SetupIdle ==
    /\ sRoutine = "none" /\ spc = "idle"
    /\ sForce = FALSE /\ sBuild = FALSE /\ sBuildPath = ""
    /\ vlsFile = "none" /\ buildBin = "none" /\ vOk = FALSE
    /\ vlsAtStart = "none"
    /\ sSelected = "none" /\ sCalls = <<>> /\ sFailed = "none" /\ sShown = "none"

\* getVls up to the prompt: forceCleanInstall removes VLS_PATH, otherwise an
\* existing VLS_PATH is returned
getVls ==
    /\ spc = "getVls"
    /\ sCalls' = Append(sCalls, "getVls")
    /\ IF sForce
       THEN vlsFile' = "none" /\ spc' = "vls_prompt"
       ELSE IF vlsFile # "none"                          \* isVlsInstalled()
       THEN spc' = "resolved" /\ UNCHANGED vlsFile
       ELSE spc' = "vls_prompt" /\ UNCHANGED vlsFile
    /\ UNCHANGED <<sRoutine, vlsAtStart, sForce, sBuild, sBuildPath, buildBin, vOk, sSelected,
                   sFailed, sShown>>
    /\ UNCHANGED <<versionVars, relVars, acqVars, clientVars, lnVars>>

\* if (selected === "No") throw
Declined(answer) == answer = "No"

\* the answer to "VLS is not installed. Do you want to install it now?"
vls_prompt ==
    /\ spc = "vls_prompt"
    /\ \E answer \in Answers :
          /\ sSelected' = answer
          /\ IF Declined(answer)
             THEN spc' = "rejected" /\ sFailed' = "declined"
             ELSE /\ spc' = IF ~sBuild THEN "installVls" ELSE "buildVls"
                  /\ UNCHANGED sFailed
    /\ UNCHANGED <<sRoutine, vlsAtStart, sForce, sBuild, sBuildPath, vlsFile, buildBin, vOk,
                   sCalls, sShown>>
    /\ UNCHANGED <<versionVars, relVars, acqVars, clientVars, lnVars>>

\* installVls: Promise.reject(new Error("VLS builds not yet available ..."))
installVls ==
    /\ spc = "installVls"
    /\ sCalls' = Append(sCalls, "installVls")
    /\ spc' = "rejected"
    /\ sFailed' = "unavailable"
    /\ UNCHANGED <<sRoutine, vlsAtStart, sForce, sBuild, sBuildPath, vlsFile, buildBin, vOk,
                   sSelected, sShown>>
    /\ UNCHANGED <<versionVars, relVars, acqVars, clientVars, lnVars>>

\* buildVls up to the build command: V must be installed; without a
\* configured buildPath /tmp/vls is removed and cloned afresh
buildVls ==
    /\ spc = "buildVls"
    /\ sCalls' = Append(sCalls, "buildVls")
    /\ IF ~vOk                                           \* !(await isVInstalled())
       THEN spc' = "rejected" /\ sFailed' = "noV" /\ UNCHANGED buildBin
       ELSE IF sBuildPath # ""
       THEN spc' = "vls_build" /\ UNCHANGED <<sFailed, buildBin>>
       ELSE /\ buildBin' = "none"                        \* rm -rf; git clone
            /\ \/ spc' = "vls_build" /\ UNCHANGED sFailed
               \/ spc' = "rejected" /\ sFailed' = "clone"
    /\ UNCHANGED <<sRoutine, vlsAtStart, sForce, sBuild, sBuildPath, vlsFile, vOk, sSelected,
                   sShown>>
    /\ UNCHANGED <<versionVars, relVars, acqVars, clientVars, lnVars>>

\* execVInTerminalOnBG: try { await exec(cmd, { cwd }) } catch { console.error }
BuildErrorSwallowed(ok) == ~ok

\* commands.ts ver: execVInTerminalOnBG(["-version"]).catch(show error).  The
\* command fails when the configured executable does not exist.
ver ==
    /\ spc = "ver"
    /\ sCalls' = Append(sCalls, "ver")
    /\ spc' = "resolved"
    /\ \E ok \in BOOLEAN :
          /\ ~vOk => ~ok
          /\ IF ok THEN UNCHANGED <<sFailed, sShown>>
             ELSE IF BuildErrorSwallowed(ok)
             THEN sFailed' = "exec" /\ UNCHANGED sShown
             ELSE sFailed' = "exec" /\ sShown' = "error"     \* the .catch handler
    /\ UNCHANGED <<sRoutine, vlsAtStart, sForce, sBuild, sBuildPath, vlsFile, buildBin,
                   vOk, sSelected>>
    /\ UNCHANGED <<versionVars, relVars, acqVars, clientVars, lnVars>>

\* await execVInTerminalOnBG(["."], buildPath)
vls_build ==
    /\ spc = "vls_build"
    /\ \E ok \in BOOLEAN :
          /\ buildBin' = IF ok THEN "fresh" ELSE buildBin
          /\ IF ok THEN spc' = "vls_cp" /\ UNCHANGED sFailed
             ELSE IF BuildErrorSwallowed(ok)
             THEN spc' = "vls_cp" /\ sFailed' = "build"
             ELSE spc' = "rejected" /\ sFailed' = "build"
    /\ UNCHANGED <<sRoutine, vlsAtStart, sForce, sBuild, sBuildPath, vlsFile, vOk, sSelected,
                   sCalls, sShown>>
    /\ UNCHANGED <<versionVars, relVars, acqVars, clientVars, lnVars>>

\* fs.mkdir; cp <buildPath>/vls VLS_PATH; return VLS_PATH.  cp fails when the
\* build path holds no binary.
vls_cp ==
    /\ spc = "vls_cp"
    /\ IF buildBin = "none"
       THEN spc' = "rejected" /\ UNCHANGED vlsFile
       ELSE spc' = "resolved" /\ vlsFile' = buildBin
    /\ UNCHANGED <<sRoutine, vlsAtStart, sForce, sBuild, sBuildPath, buildBin, vOk, sSelected,
                   sCalls, sFailed, sShown>>
    /\ UNCHANGED <<versionVars, relVars, acqVars, clientVars, lnVars>>

\* what rmSync(dir, { recursive: true, force: true }) leaves of a file that
\* lies in dir
RmRecursive(content) == "none"

\* utils.ts installV: the workspace is prepared.  installDir is USER_BIN_PATH,
\* the directory that holds VLS_PATH: if (existsSync(installDir))
\* rmSync(installDir, recursive); mkdirSync(installDir)
installV_utils ==
    /\ spc = "installV"
    /\ sCalls' = Append(sCalls, "installV")
    /\ buildBin' = RmRecursive(buildBin)
    /\ vlsFile' = RmRecursive(vlsFile)
    /\ spc' = "iv_clone"
    /\ UNCHANGED <<sRoutine, vlsAtStart, sForce, sBuild, sBuildPath, vOk, sSelected,
                   sFailed, sShown>>
    /\ UNCHANGED <<versionVars, relVars, acqVars, clientVars, lnVars>>

\* where installV goes on when a step inside its outer try block throws: the
\* catch shows an error message and the callback of withProgress returns
AfterStepFailed == "resolved"

\* git clone --depth=1
iv_clone ==
    /\ spc = "iv_clone"
    /\ \/ spc' = "iv_make" /\ UNCHANGED <<sFailed, sShown>>
       \/ spc' = AfterStepFailed /\ sFailed' = "clone" /\ sShown' = "error"
    /\ UNCHANGED <<sRoutine, vlsAtStart, sForce, sBuild, sBuildPath, vlsFile, buildBin, vOk,
                   sSelected, sCalls>>
    /\ UNCHANGED <<versionVars, relVars, acqVars, clientVars, lnVars>>

\* make
iv_make ==
    /\ spc = "iv_make"
    /\ \/ spc' = "iv_symlink" /\ buildBin' = "fresh" /\ UNCHANGED <<sFailed, sShown>>
       \/ /\ spc' = AfterStepFailed /\ sFailed' = "make" /\ sShown' = "error"
          /\ UNCHANGED buildBin
    /\ UNCHANGED <<sRoutine, vlsAtStart, sForce, sBuild, sBuildPath, vlsFile, vOk, sSelected,
                   sCalls>>
    /\ UNCHANGED <<versionVars, relVars, acqVars, clientVars, lnVars>>

\* ./v symlink, in a try block of its own
iv_symlink ==
    /\ spc = "iv_symlink"
    /\ spc' = "resolved"
    /\ \/ sShown' = "info" /\ UNCHANGED sFailed
       \/ sShown' = "warning" /\ sFailed' = "symlink"
    /\ UNCHANGED <<sRoutine, vlsAtStart, sForce, sBuild, sBuildPath, vlsFile, buildBin, vOk,
                   sSelected, sCalls>>
    /\ UNCHANGED <<versionVars, relVars, acqVars, clientVars, lnVars>>

(***************************************************************************)
(* Specifications                                                          *)
(***************************************************************************)
AcqNext ==
    \/ activate \/ handleVinstallation \/ removeV \/ hv_probe \/ hv_prompt
    \/ installV \/ getLatestStableAssetUrl \/ getLatestAssetUrl
    \/ installVFromAsset \/ iva_clean \/ downloadFile \/ iva_extract
    \/ iva_extracting \/ iva_symlink \/ iva_verify
    \/ buildVfromPath \/ bvp_make \/ bvp_symlink
    \/ checkUpdates \/ updateNightlyBuild \/ cu_probe
    \/ registerCommands \/ activate_rejects

Init == AcqInit /\ VersionIdle /\ RelIdle /\ ClientIdle /\ LnIdle /\ SetupIdle

Next == AcqNext

Spec == Init /\ [][Next]_vars

VersionNext == Canonicalize \/ Compare

InitVersion == VersionInit /\ RelIdle /\ AcqIdle /\ ClientIdle /\ LnIdle /\ SetupIdle

SpecVersion == InitVersion /\ [][VersionNext]_vars

InitClient == ClientInit /\ AcqIdle /\ VersionIdle /\ RelIdle /\ LnIdle /\ SetupIdle

SpecClient == InitClient /\ [][ClientNext]_vars

RelNext == rel_stable \/ rel_latest \/ rel_select

InitRelease == RelInit /\ VersionIdle /\ AcqIdle /\ ClientIdle /\ LnIdle /\ SetupIdle

SpecRelease == InitRelease /\ [][RelNext]_vars

LnNext == receiveLauncherJsonData

InitLauncher == LnInit /\ VersionIdle /\ RelIdle /\ AcqIdle /\ ClientIdle /\ SetupIdle

SpecLauncher == InitLauncher /\ [][LnNext]_vars

SetupNext ==
    \/ ver
    \/ getVls \/ vls_prompt \/ installVls \/ buildVls \/ vls_build \/ vls_cp
    \/ installV_utils \/ iv_clone \/ iv_make \/ iv_symlink

InitSetup == SetupInit /\ VersionIdle /\ RelIdle /\ AcqIdle /\ ClientIdle /\ LnIdle

SpecSetup == InitSetup /\ [][SetupNext]_vars

(***************************************************************************)
(* Properties of the client lifecycle                                      *)
(***************************************************************************)
\* the clients that have been started and not stopped
LiveClients == {c \in ClientIds : cstate[c] \in {"starting", "running"}}

\* C1: at most one language client is started and not yet stopped, whatever
\* the interleaving of activation and configuration-change events.
C1_AtMostOneLiveClient == Cardinality(LiveClients) <= 1

(***************************************************************************)
(* Properties of the acquisition pass                                      *)
(***************************************************************************)
AcqRoutines == {"getLatestStableAssetUrl", "getLatestAssetUrl",
                "installVFromAsset", "buildVfromPath"}
IsAcqRoutine(name) == name \in AcqRoutines
\* the acquisition routines entered so far, in order
AcqCalls == SelectSeq(calls, IsAcqRoutine)
WasCalled(name) == \E i \in DOMAIN calls : calls[i] = name
TimesCalled(name) == Cardinality({i \in DOMAIN calls : calls[i] = name})
IsPrefix(a, b) == Len(a) <= Len(b) /\ SubSeq(b, 1, Len(a)) = a
PassResolved == pc \in {"hv_resolved", "activated"}
PassRejected == pc \in {"hv_rejected", "activate_rejected"}

\* C2: handleVinstallation never rejects: every failure of an acquisition
\* step is caught, reported to the user and logged, and activate goes on to
\* register the commands.
C2_HandleVinstallationNeverRejects ==
    /\ ~PassRejected
    /\ failedAt # "none" => ("error" \in shown /\ logged)
    /\ (failedAt # "none" /\ pc = "activated") => registered

\* C3: when installVFromAsset fails at download, extraction or format
\* dispatch, the install directory and binary that were there before the
\* attempt are still there.
C3_FailedInstallKeepsPriorState ==
    failedAt \in {"download", "extract", "format"} =>
        /\ prior.dir = "old" => fs[vDir] = "old"
        /\ prior.exec = "old" => fs[vExecPath] = "old"

\* C4: the final executable path never holds a partially written tree: it
\* holds nothing, the complete previous content or the complete new content,
\* and new content appears there only once permissions have been set.
C4_FinalPathNeverPartial ==
    /\ fs[vExecPath] \in {"absent", "old", "new"}
    /\ fs[vExecPath] = "new" => vExecPath \in xbit

\* C5: with forceCleanInstall set, the probe of handleVinstallation reports
\* Absent although a binary was present when the pass began.
C5_ForceCleanProbeAbsent ==
    (forceCleanInstall /\ presentAtStart /\ hvProbe # "none") => hvProbe = "absent"

\* C6: with the compiler absent, installV is called only after the answer
\* "Yes"; on "No" or dismissal the pass ends with no install attempt and no
\* error.
C6_InstallOnlyOnYes ==
    /\ (hvProbe = "absent" /\ WasCalled("installV")) => selection = "Yes"
    /\ selection \in {"No", "dismissed"} =>
          /\ ~WasCalled("installV")
          /\ AcqCalls = <<>>
          /\ failedAt = "none"
          /\ PassResolved

\* C6 witness: the prompt was dismissed and the pass ended without an install
C6_Witness ==
    /\ hvProbe = "absent" /\ selection = "dismissed"
    /\ pc = "activated" /\ AcqCalls = <<>>

\* the acquisition routines installV is to call for a channel, in order
InstallVPlan(channel) ==
    CASE channel = "stable" -> <<"getLatestStableAssetUrl", "installVFromAsset">>
      [] channel = "nightly" -> <<"getLatestAssetUrl", "installVFromAsset">>
      [] OTHER -> <<"buildVfromPath">>

\* C7: installV calls, for 'stable', getLatestStableAssetUrl then
\* installVFromAsset; for 'nightly', getLatestAssetUrl then installVFromAsset;
\* for 'custom' and every other value, buildVfromPath; and nothing else.
C7_InstallVDispatch ==
    ctx = "installV" =>
        /\ IsPrefix(AcqCalls, InstallVPlan(releaseChannel))
        /\ PassResolved => AcqCalls = InstallVPlan(releaseChannel)
        /\ PassRejected => AcqCalls # <<>>

\* C7 witness: an unrecognised channel was installed by buildVfromPath alone
C7_Witness ==
    /\ ctx = "installV" /\ releaseChannel = "beta"
    /\ pc = "activated" /\ AcqCalls = <<"buildVfromPath">>

\* C8: with the compiler present, checkUpdates makes no resolver, installer
\* or self-update call for 'custom'; exactly one self-update call and no
\* installer call for 'nightly'; and for 'stable' resolves the release and
\* calls installVFromAsset, with isUpdate = true, iff isUpToDate(installed,
\* target) is false.
C8_CheckUpdatesByChannel ==
    ctx = "checkUpdates" =>
        /\ hvProbe = "present"
        /\ releaseChannel = "custom" =>
              AcqCalls = <<>> /\ ~WasCalled("updateNightlyBuild")
        /\ releaseChannel = "nightly" =>
              /\ AcqCalls = <<>>
              /\ TimesCalled("updateNightlyBuild") <= 1
              /\ PassResolved => TimesCalled("updateNightlyBuild") = 1
        /\ releaseChannel = "stable" =>
              /\ ~WasCalled("updateNightlyBuild")
              /\ IsPrefix(AcqCalls, <<"getLatestStableAssetUrl", "installVFromAsset">>)
              /\ PassResolved => WasCalled("getLatestStableAssetUrl")
              /\ WasCalled("installVFromAsset") =>
                    /\ isUpdate /\ asset.def
                    /\ ~isUpToDate(installedVersion, Str(asset.version))
              /\ (PassResolved /\ asset.def
                    /\ ~isUpToDate(installedVersion, Str(asset.version))) =>
                    WasCalled("installVFromAsset")

\* C8 witness: a stable install that was out of date has been updated
C8_Witness ==
    /\ ctx = "checkUpdates" /\ releaseChannel = "stable"
    /\ pc = "activated" /\ failedAt = "none"
    /\ WasCalled("installVFromAsset") /\ isUpdate
    /\ installedVersion.def

(***************************************************************************)
(* Properties of the version functions                                     *)
(***************************************************************************)
\* the input is undefined, empty or only white space
Blank(in) ==
    \/ in.undef
    \/ in.pre \in {<<>>, <<" ">>} /\ in.core = <<>> /\ in.suf \in {<<>>, <<" ">>}

\* the token the priority rules give, read off the pieces of the input
ExpectedToken(in) ==
    IF Blank(in) THEN Undefined
    ELSE IF in.core = Weekly202415 THEN Str(Weekly202415)
    ELSE IF in.core \in Triples THEN Str(in.core)
    ELSE IF in.suf = <<" ">> \o Triple999 THEN Str(Triple999)
    ELSE Str(in.core)

\* a and b are among 'v'+t, t and 'V '+t for one triple t
TripleVariants(a, b) ==
    /\ ~a.undef /\ ~b.undef
    /\ a.core \in Triples /\ a.core = b.core
    /\ a.suf = <<>> /\ b.suf = <<>>
    /\ {a.pre, b.pre} \subseteq {<<>>, <<"v">>, <<"V", " ">>}

\* C9 (as amended): isUpToDate(current, target) is true iff both arguments
\* canonicalize to a non-empty token and the two tokens are character-equal;
\* whenever either side is undefined, empty or blank it is false.
C9_UpToDateIffEqualNonEmptyTokens ==
    vpc = "compared" =>
        /\ upToDate <=> (/\ tok1.def /\ tok2.def
                         /\ tok1.val # <<>> /\ tok2.val # <<>>
                         /\ tok1.val = tok2.val)
        /\ (Blank(in1) \/ Blank(in2)) => ~upToDate

\* C9 witness: two different raw strings found up to date
C9_Witness ==
    /\ vpc = "compared" /\ upToDate
    /\ Raw(in1) # Raw(in2)
    /\ tok1.def /\ tok1 = tok2

\* C9 (as claimed): isUpToDate is true iff both arguments canonicalize to a
\* token (neither is none) and the two tokens are character-equal.
C9_UpToDateIffEqualTokens ==
    vpc = "compared" =>
        (upToDate <=> (tok1.def /\ tok2.def /\ tok1.val = tok2.val))

\* C10: extractVersionIdentifier applies its rules in priority order (blank
\* gives none, then the weekly tag, then the first numeric triple, then the
\* trimmed lowercased input less one leading v prefix), so 'v'+t, t and
\* 'V '+t give the same token for every triple t.
C10_CanonicalizePriority ==
    vpc # "input" =>
        /\ tok1 = ExpectedToken(in1)
        /\ tok2 = ExpectedToken(in2)
        /\ TripleVariants(in1, in2) => (tok1 = tok2 /\ tok1 = Str(in1.core))

\* C10 witness: 'v1.2.3' and 'V 1.2.3' canonicalized to the same token
C10_Witness ==
    /\ vpc = "canon"
    /\ in1 = [undef |-> FALSE, pre |-> <<"v">>, core |-> Triple123, suf |-> <<>>]
    /\ in2 = [undef |-> FALSE, pre |-> <<"V", " ">>, core |-> Triple123, suf |-> <<>>]
    /\ tok1 = Str(Triple123) /\ tok2 = tok1

\* the token is a numeric triple and nothing else
IsSemverToken(t) == t.def /\ SemverMatch(t.val) = t

\* C11: when the installed-version string carries a weekly tag and the
\* target canonicalizes to a semver triple, isUpToDate is false.
C11_WeeklyNeverEqualsSemver ==
    (vpc = "compared" /\ ~in1.undef /\ in1.core = Weekly202415
        /\ IsSemverToken(tok2)) => ~upToDate

\* C11 witness: a weekly install that also mentions 9.9.9 was compared with a
\* target whose token is 9.9.9
C11_Witness ==
    /\ vpc = "compared" /\ ~upToDate
    /\ ~in1.undef /\ in1.core = Weekly202415 /\ in1.suf = <<" ">> \o Triple999
    /\ tok1 = Str(Weekly202415) /\ tok2 = Str(Triple999)

(***************************************************************************)
(* Properties of release resolution                                        *)
(***************************************************************************)
\* the value has every field of the release shape, with the right type
HasReleaseShape(e) ==
    /\ e.obj /\ e.draftT = "boolean" /\ e.prereleaseT = "boolean"
    /\ e.tagT = "string" /\ e.assetsArr
    /\ \A i \in DOMAIN e.assets :
          e.assets[i].obj /\ e.assets[i].nameT = "string" /\ e.assets[i].urlT = "string"

\* the body is a list of values of the release shape
ShapedList(b) ==
    b.kind = "array" /\ \A i \in DOMAIN b.items : HasReleaseShape(b.items[i])

\* not a draft, not a prerelease, tag not starting with 'weekly.'
Qualifies(e) ==
    /\ e.draft = FALSE /\ e.prerelease = FALSE
    /\ ~(Len(e.tag_name) >= 7 /\ SubSeq(e.tag_name, 1, 7) = WeeklyPrefix)

\* C12: on a well-formed listing getLatestStableAssetUrl resolves the first
\* release, in the order of the list, that is not a draft, not a prerelease
\* and not tagged 'weekly.', wherever it stands in the list (an error is
\* thrown instead when that release has no asset for the host), and throws
\* "No stable release found" when no release qualifies.
C12_StableIsFirstQualifying ==
    (rpc = "done" /\ relMode = "stable" /\ body.ok /\ ShapedList(body)) =>
        LET q == {i \in DOMAIN body.items : Qualifies(body.items[i])}
        IN  IF q = {}
            THEN result.threw /\ result.error = "No stable release found"
            ELSE LET first == body.items[SetMin(q)]
                 IN  IF selectAssetForPlatform(first.assets, host) = 0
                     THEN /\ result.threw
                          /\ result.error = "No matching binary for this OS"
                     ELSE /\ ~result.threw
                          /\ result.version = first.tag_name
                          /\ \E i \in DOMAIN first.assets :
                                first.assets[i].name = result.url

\* C12 witness: a draft, a prerelease and then a stable release: the third
\* one was resolved
C12_Witness ==
    /\ rpc = "done" /\ relMode = "stable"
    /\ body.ok /\ body.kind = "array"
    /\ body.items = <<DraftRelease, PreRelease, StableRelease>>
    /\ ~result.threw /\ result.version = Triple0410

\* the body is of the shape the routine expects
Conforms(b, mode) ==
    IF mode = "stable" THEN ShapedList(b)
    ELSE b.kind = "object" /\ HasReleaseShape(b.items[1])

\* C13: when the body of a successful response does not conform to the
\* release shape (list form: not an array, or some element misshapen), the
\* resolver throws and returns no release.
C13_MisshapenBodyThrows ==
    (rpc = "done" /\ relMode \in {"stable", "latest"} /\ body.ok
        /\ ~Conforms(body, relMode)) => result.threw

\* the candidate rules of a host, most specific first
Rule(n, b) == [needles |-> n, bans |-> b]
Rules(h) ==
    CASE h.platform = "win32" ->
            <<Rule({f_v_windows}, {}), Rule({f_windows}, {}), Rule({f_win}, {f_arm})>>
      [] h.platform = "linux" /\ h.arch = "arm64" ->
            <<Rule({f_v_linux_arm64}, {}), Rule({f_linux, f_arm64}, {}),
              Rule({f_linux, f_aarch64}, {})>>
      [] h.platform = "linux" /\ h.arch # "arm64" ->
            <<Rule({f_v_linux}, {f_arm64, f_aarch64}),
              Rule({f_linux}, {f_arm64, f_aarch64})>>
      [] h.platform = "darwin" /\ h.arch = "arm64" ->
            <<Rule({f_v_macos_arm64}, {}), Rule({f_macos, f_arm64}, {}),
              Rule({f_darwin, f_arm64}, {})>>
      [] h.platform = "darwin" /\ h.arch # "arm64" ->
            <<Rule({f_v_macos_x86_64}, {}), Rule({f_macos, f_x86_64}, {}),
              Rule({f_macos, f_x64}, {}), Rule({f_darwin, f_x64}, {}),
              Rule({f_macos}, {})>>
      [] OTHER -> <<>>

\* the lowercased name holds every needle of the rule and none of its bans
RuleMatches(rule, name) ==
    /\ \A f \in rule.needles : includes(toLowerCase(name), f)
    /\ \A f \in rule.bans : ~includes(toLowerCase(name), f)

\* C14: selectAssetForPlatform returns the first match in the scan of the
\* host's rules in order and, within a rule, of the assets in order; nothing
\* when no rule matches any asset; and on linux/arm64 the second of
\* [windows_x64, linux_arm64, macos_arm64].
C14_SelectFirstMatchByRuleThenAsset ==
    (rpc = "done" /\ relMode = "select") =>
        LET rules == Rules(host)
            hits == {p \in (DOMAIN rules) \X (DOMAIN assetsIn) :
                        RuleMatches(rules[p[1]], assetsIn[p[2]].name)}
        IN  /\ IF hits = {} THEN result.idx = 0
               ELSE \E p \in hits :
                       /\ result.idx = p[2]
                       /\ result.url = assetsIn[p[2]].name
                       /\ \A o \in hits : p[1] < o[1] \/ (p[1] = o[1] /\ p[2] <= o[2])
            /\ (host = [platform |-> "linux", arch |-> "arm64"]
                    /\ assetsIn = ClaimAssets) => result.idx = 2

\* C14 witness: on linux/arm64 the asset of the more specific rule was
\* returned although an asset of a later rule stands before it
C14_Witness ==
    /\ rpc = "done" /\ relMode = "select"
    /\ host = [platform |-> "linux", arch |-> "arm64"]
    /\ assetsIn = <<Asset(n_linux_arm64), Asset(n_v_linux_arm64)>>
    /\ result.idx = 2

(***************************************************************************)
(* Properties of the installers                                            *)
(***************************************************************************)
\* C15: when the symlink command of installVFromAsset or buildVfromPath
\* fails, a warning is shown, nothing is thrown, installVFromAsset still sets
\* the permissions and runs the verification, and the routine resolves.
C15_SymlinkFailureNotFatal ==
    WasCalled("symlink_failed") =>
        /\ "warning" \in shown
        /\ failedAt = "none"
        /\ pc \in {"iva_verify", "hv_resolved", "activated"}
        /\ (WasCalled("installVFromAsset") /\ existsSync(vExecPath)) =>
              vExecPath \in xbit
        /\ (WasCalled("installVFromAsset") /\ PassResolved) =>
              calls[Len(calls)] = "isVInstalled"

\* C15 witness: an install from a release asset whose symlink failed has
\* been verified and the pass went on
C15_Witness ==
    /\ WasCalled("symlink_failed") /\ WasCalled("installVFromAsset")
    /\ pc = "activated" /\ registered
    /\ fs[vDir] = "new" /\ linkTarget # "store"

\* installVFromAsset has returned its path
InstallCompleted ==
    WasCalled("installVFromAsset") /\ failedAt = "none" /\ PassResolved

\* the path holds a regular file
IsFile(p) ==
    IF p = vDir THEN fs[p] \in {"partial", "new"} /\ asset.top = "file"
    ELSE existsSync(p)

\* C16: after installVFromAsset completed on a POSIX host the temporary
\* archive is gone and the returned path, vExecPath, holds a file that has
\* the executable bit set.
C16_PosixInstallLeavesExecutableFile ==
    (InstallCompleted /\ platform = "posix") =>
        /\ fs[tmpFile] = "absent"
        /\ IsFile(vExecPath)
        /\ vExecPath \in xbit

\* C17: with channel 'stable', the compiler absent and the answer "Yes", the
\* pass calls getLatestStableAssetUrl then installVFromAsset, the install
\* ends with the verification probe, and once the pass has completed a probe
\* reports the compiler installed with the version of the resolved tag.
C17_EndToEndStable ==
    (releaseChannel = "stable" /\ hvProbe = "absent" /\ selection = "Yes") =>
        /\ IsPrefix(AcqCalls, <<"getLatestStableAssetUrl", "installVFromAsset">>)
        /\ (PassResolved /\ failedAt = "none") =>
              /\ AcqCalls = <<"getLatestStableAssetUrl", "installVFromAsset">>
              /\ calls[Len(calls)] = "isVInstalled"
              /\ isVInstalled.installed
              /\ extractVersionIdentifier(isVInstalled.version)
                    = extractVersionIdentifier(Str(asset.version))

\* C18: when the build path is missing buildVfromPath throws with no build
\* and no symlink command run; when the build command fails the function
\* throws and no symlink command is run.
C18_BuildChecksPathAndBuildIsFatal ==
    /\ failedAt = "buildPath" =>
          /\ ~WasCalled("make") /\ ~WasCalled("make_failed")
          /\ ~WasCalled("symlink") /\ ~WasCalled("symlink_failed")
          /\ PassRejected /\ "error" \in shown
    /\ WasCalled("make_failed") =>
          /\ failedAt = "make"
          /\ ~WasCalled("symlink") /\ ~WasCalled("symlink_failed")
          /\ PassRejected /\ "error" \in shown
    /\ \A i \in DOMAIN calls :
          calls[i] \in {"make", "make_failed"} =>
              (i > 1 /\ calls[i - 1] = "buildVfromPath")

\* C18 witness: the build command failed and activate was rejected
C18_Witness ==
    /\ WasCalled("make_failed") /\ failedAt = "make"
    /\ pc = "activate_rejected"

(***************************************************************************)
(* Properties of starting and stopping the client                          *)
(***************************************************************************)
\* C19: a client whose start() was rejected is not the module-level client:
\* `client` is undefined again, so that a later enable event starts anew.
C19_FailedStartClearsClient ==
    \A c \in ClientIds : cstate[c] = "failed" => client # c

\* C20: client.stop() is called at most once on a client, however the
\* disable events and deactivate interleave with a pending stop.
C20_StopCalledAtMostOnce ==
    \A c \in ClientIds : stopCalls[c] <= 1

\* C21: updateVls still attempts the start when the stop fails: a rejected
\* client.stop() is swallowed, client.start() is called, and an error is
\* reported exactly when the start failed.
C21_UpdateStartsAfterFailedStop ==
    (cmd.name = "update" /\ cmd.stop = "failed")
        => /\ cmd.start \in {"ok", "failed"}
           /\ cmd.reported <=> cmd.start = "failed"

\* the reaction the handler is to have to an event of that kind, given the
\* setting it read and whether a client existed
Reaction(kind, vlsEnabled, hadClient) ==
    IF kind = "enable"
    THEN (IF vlsEnabled /\ ~hadClient THEN "start"
          ELSE IF ~vlsEnabled /\ hadClient THEN "stop"
          ELSE "none")
    ELSE IF kind = "vls"
    THEN (IF vlsEnabled /\ hadClient THEN "prompt" ELSE "none")
    ELSE hobs[0].react

\* C22: a handler of a v.vls.enable event starts a client when the setting is
\* true and there is no client, stops the client and clears `client` when the
\* setting is false and there is one; a handler of another v.vls event prompts
\* when enabled with a client, restarts only on "Yes", and on "No" or dismissal
\* finishes without touching the client.
C22_HandlerReactions ==
    /\ [](\A h \in Handlers \ {0} :
             /\ hobs[h].kind \in {"enable", "vls"}
                   => hobs[h].react =
                         Reaction(hobs[h].kind, hobs[h].vlsEnabled, hobs[h].hadClient)
             /\ hobs[h].react = "start"
                   => hpc[h] \in {"getVls", "start", "done"}
             /\ hobs[h].react = "stop" => hpc[h] \in {"stopping", "done"}
             /\ hpc[h] = "restarting" => hobs[h].selected = "Yes"
             /\ hobs[h].selected \in {"No", "dismissed"} => hpc[h] = "done")
    /\ [][\A h \in Handlers \ {0} :
             /\ (hpc[h] = "stopping" /\ hpc'[h] = "done") => client' = 0
             /\ (hpc[h] = "prompt" /\ hobs'[h].selected \in {"No", "dismissed"})
                   => (cstate' = cstate /\ client' = client)
             /\ (hpc[h] = "prompt" /\ hobs'[h].selected = "Yes" /\ client # 0)
                   => hpc'[h] = "restarting"]_vars

\* a handler was answered "No" and one was dismissed, neither restarted, and a
\* third handler stopped the client that was running and cleared it
C22_Witness ==
    /\ \E h \in Handlers : hobs[h].selected = "dismissed" /\ hpc[h] = "done"
    /\ \E h \in Handlers : hobs[h].selected = "Yes" /\ hpc[h] = "done"
    /\ \E h \in Handlers :
          hobs[h].react = "stop" /\ hpc[h] = "done" /\ cstate[hcl[h]] = "stopped"
    /\ client = 0

\* a run of handleVinstallation is under way in that handler
InPass(h) == hpc[h] \in {"handleVinstallation", "installVFromAsset"}

\* C25: two runs of handleVinstallation never overlap, and so no two
\* installVFromAsset sequences work in the install directory at once.
C25_PassesSerialized ==
    \A h1 \in Handlers, h2 \in Handlers :
       (InPass(h1) /\ InPass(h2)) => h1 = h2

\* activation is over, no handler is under way, no start attempt failed and
\* no command was invoked
Quiescent ==
    /\ listening
    /\ \A h \in Handlers : hpc[h] \in {"idle", "done"} /\ ~hobs[h].failed
    /\ nCmds = 0

\* C28: once every handler has finished (and acquisition and start
\* succeeded), a client exists exactly when v.vls.enable is true.
C28_ClientIffEnabled ==
    Quiescent => (client # 0 <=> enable)

\* C29: the commands act on the module-level client of the moment they are
\* invoked, and when there is none they start or restart nothing.
C29_CommandsActOnCurrentClient ==
    cmd.name # "none"
        => /\ cmd.target = cmd.current
           /\ cmd.current = 0 => cmd.start \notin {"ok", "failed"}


\* the `cancellable` option the routine passes to window.withProgress
ProgressCancellable(routine) ==
    CASE routine = "installVFromAsset" -> FALSE
      [] routine = "buildVfromPath" -> FALSE
      [] routine = "installVls" -> TRUE

\* the routine whose progress indicator is showing
ProgressOf ==
    IF pc \in {"iva_clean", "iva_download", "iva_extract", "iva_extracting",
               "iva_symlink", "iva_verify"}
    THEN "installVFromAsset"
    ELSE IF pc \in {"bvp_make", "bvp_symlink"} THEN "buildVfromPath"
    ELSE "none"

\* C23: while a download or a build is under way, the user can cancel it
\* through its progress indicator.
C23_DownloadAndBuildCancellable ==
    ProgressOf # "none" => ProgressCancellable(ProgressOf)


(***************************************************************************)
(* Properties of the launcher's output and of the setup routines           *)
(***************************************************************************)
IsStatusLine(line) == line \in {PayloadA, PayloadB}
RECURSIVE StatusPayloads(_)
\* the payloads of the well-formed status lines, in order, as the consumer
\* is to receive them
StatusPayloads(lines) ==
    IF lines = <<>> THEN <<>>
    ELSE IF IsStatusLine(Head(lines))
    THEN <<Escape(Head(lines))>> \o StatusPayloads(Tail(lines))
    ELSE StatusPayloads(Tail(lines))

\* C24: when the whole output has been handed over, the consumer callback
\* has received every well-formed status line, in order, however the output
\* was cut into chunks and whatever malformed lines lie between them.
C24_EveryStatusLineDelivered ==
    lnRest = <<>> => lnDelivered = StatusPayloads(lnLines)

\* the routine has settled
Settled == spc \in {"resolved", "rejected"}

\* C26: installV rejects when its git clone or its make step failed.
C26_InstallVRejectsOnFailedStep ==
    (sRoutine = "installV" /\ Settled /\ sFailed \in {"clone", "make"})
        => spc = "rejected"

SetupCalled(name) == \E i \in DOMAIN sCalls : sCalls[i] = name

\* C27: getVls calls installVls or buildVls only when the answer to its
\* prompt was "Yes".
C27_SetupOnlyOnYes ==
    (SetupCalled("installVls") \/ SetupCalled("buildVls")) => sSelected = "Yes"

\* C30: buildVls resolves only if the build command succeeded in this run,
\* and a failed build leaves no binary of an earlier build at VLS_PATH.
C30_BuildVlsResolvesOnlyAfterBuild ==
    (SetupCalled("buildVls") /\ sFailed = "build")
        => /\ spc # "resolved"
           /\ Settled => vlsFile # "stale"


\* C31: whenever the version command fails to execute, the "show version"
\* command shows the error message "Failed to get V version".
C31_VerShowsErrorOnFailure ==
    (sRoutine = "ver" /\ Settled /\ sFailed = "exec") => sShown = "error"

\* C32: after installV has run, successfully or not, a language-server binary
\* that was present at VLS_PATH is still present.
C32_InstallVKeepsVls ==
    (sRoutine = "installV" /\ vlsAtStart # "none") => vlsFile = vlsAtStart


\* the name fragments that mark an asset as built for another operating
\* system or architecture than that host's
ForeignFragments(h) ==
    IF h.platform = "win32" THEN {f_darwin, f_macos, f_linux}
    ELSE IF h.platform = "linux" /\ h.arch # "arm64" THEN {f_arm64, f_aarch64}
    ELSE IF h.platform = "darwin" /\ h.arch = "x64" THEN {f_arm64}
    ELSE {}

\* C33: selectAssetForPlatform never returns an asset whose name marks it as
\* built for another operating system or architecture.
C33_NeverForeignAsset ==
    (rpc = "done" /\ relMode = "select" /\ result.idx # 0)
        => \A f \in ForeignFragments(host) :
              ~includes(toLowerCase(assetsIn[result.idx].name), f)


\* C34: when release resolution failed and forceCleanInstall is not set, the
\* file system and PATH are as they were when the pass began, and the
\* installer was never entered.
C34_FailedResolutionTouchesNothing ==
    (failedAt = "resolve" /\ ~forceCleanInstall)
        => /\ envVars = env0
           /\ ~WasCalled("installVFromAsset")

\* C34 witness: with forceCleanInstall unset, resolution failed during an
\* install over the remnants of an earlier download, and activation rejected
C34_Witness ==
    /\ failedAt = "resolve" /\ ~forceCleanInstall
    /\ fs[vDir] = "old"
    /\ pc = "activate_rejected"

\* C35: for a configured channel other than 'stable', 'nightly' and 'custom',
\* which installV builds from the source path, checkUpdates on a compiler
\* that is present resolves and downloads no release asset.
C35_UpdateTreatsChannelAsInstall ==
    (ctx = "checkUpdates" /\ releaseChannel \notin {"stable", "nightly", "custom", "undefined"})
        => /\ InstallVRoute(releaseChannel) = "buildVfromPath"
           /\ ~WasCalled("getLatestStableAssetUrl")
           /\ ~WasCalled("installVFromAsset")
           /\ envVars = env0


====
